---- MODULE Spec2Model ----
(***************************************************************************)
(* Verifactura: the extraction orchestrator (app/services/                 *)
(* extraction_service.py) with its OCR / LLM client caches, modelled as a  *)
(* state machine whose steps are complete calls of its operations.         *)
(*                                                                         *)
(* Texts (document text, OCR output) and file names are sequences of       *)
(* one-character strings; uploaded bytes are sequences of integers.        *)
(* Content types, provider names, endpoints and keys are strings, with     *)
(* str.lower / str.strip given on the values the model enumerates.         *)
(* The external collaborators (PyPDF2 reader, page renderers, the Azure    *)
(* OCR service, the LLM client) answer through an oracle chosen per call.  *)
(***************************************************************************)
EXTENDS Integers, Sequences, FiniteSets, TLC

\* ---------------------------------------------------------------- bounds
\* Most pages a rendered PDF has in the model.
MaxPages == 2
\* Most client objects (OCR or LLM) constructed in one behaviour.
MaxInstances == 6

\* ------------------------------------------------------- Python's values
\* Python's None, where an Optional[str] is passed.
NONE == "<None>"

\* extraction_service.py:19-22
IMAGE_EXTENSIONS == { <<".", "p", "n", "g">>, <<".", "j", "p", "g">>,
                      <<".", "j", "p", "e", "g">>, <<".", "t", "i", "f">>,
                      <<".", "t", "i", "f", "f">> }
TEXT_EXTENSIONS == { <<".", "j", "s", "o", "n">> }
XML_EXTENSIONS == { <<".", "x", "m", "l">> }
PDF_EXTENSIONS == { <<".", "p", "d", "f">> }

\* str.lower() on one character (the upper-case letters the model uses).
LowerChar(c) ==
    CASE c = "P" -> "p" [] c = "D" -> "d" [] c = "F" -> "f"
      [] c = "N" -> "n" [] c = "G" -> "g" [] OTHER -> c

\* str.lower() on a sequence of characters.
LowerSeq(s) == [i \in 1..Len(s) |-> LowerChar(s[i])]

\* The positions of "." in a name.
DotPositions(name) == { i \in 1..Len(name) : name[i] = "." }

\* pathlib: Path(filename).suffix -- from the last dot, unless that dot
\* starts or ends the name.
PathSuffix(name) ==
    IF DotPositions(name) = {} THEN <<>>
    ELSE LET i == CHOOSE k \in DotPositions(name) :
                      \A j \in DotPositions(name) : j <= k
         IN IF i = 1 \/ i = Len(name) THEN <<>>
            ELSE SubSeq(name, i, Len(name))

\* Path(filename).suffix.lower()
SuffixOf(name) == LowerSeq(PathSuffix(name))

\* str.lower() on the content types and provider names of the model.
LowerStr(s) ==
    CASE s = "Application/PDF" -> "application/pdf"
      [] s = "IMAGE/PNG" -> "image/png"
      [] s = "Azure" -> "azure"
      [] s = "API" -> "api"
      [] s = "Local" -> "local"
      [] s = "JPEG" -> "jpeg"
      [] OTHER -> s

\* str.startswith("image/") on the (lower-cased) content types of the model.
StartsWithImage(ct) == ct \in {"image/png", "image/jpeg", "image/tiff", "image/bmp"}

\* str.strip() on the endpoint / key / provider strings of the model.
StripStr(s) ==
    CASE s = " e1 " -> "e1"
      [] s = " k1 " -> "k1"
      [] s = "  " -> ""
      [] s = " azure " -> "azure"
      [] OTHER -> s

\* mimetypes.guess_type(filename)[0], by the name's suffix; NONE when unknown.
GuessType(name) ==
    LET sfx == SuffixOf(name) IN
    CASE sfx = <<".", "p", "d", "f">> -> "application/pdf"
      [] sfx = <<".", "p", "n", "g">> -> "image/png"
      [] sfx = <<".", "x", "m", "l">> -> "application/xml"
      [] sfx = <<".", "j", "s", "o", "n">> -> "application/json"
      [] sfx = <<".", "b", "i", "n">> -> "application/octet-stream"
      [] OTHER -> NONE

\* A Python truth test on an Optional[str].
Truthy(s) == s # NONE /\ s # ""

\* Whitespace characters of str.strip().
IsSpace(c) == c \in {" ", "\n", "\t"}

\* str.lstrip() / str.rstrip() / str.strip() on a text.
RECURSIVE LStrip(_)
LStrip(t) == IF t # <<>> /\ IsSpace(Head(t)) THEN LStrip(Tail(t)) ELSE t
RECURSIVE RStrip(_)
RStrip(t) ==
    IF t # <<>> /\ IsSpace(t[Len(t)]) THEN RStrip(SubSeq(t, 1, Len(t) - 1)) ELSE t
Strip(t) == LStrip(RStrip(t))

\* bytes.decode("utf-8", errors="replace") on ASCII bytes and lone invalid
\* bytes: an invalid byte becomes the replacement character.
DecodeByte(b) ==
    CASE b = 65 -> "A" [] b = 32 -> " " [] b = 10 -> "\n"
      [] b < 128 -> "c" [] OTHER -> "U+FFFD"
DecodeUtf8(data) == [i \in 1..Len(data) |-> DecodeByte(data[i])]

\* bytes.startswith(prefix)
BytesStartWith(data, prefix) ==
    Len(data) >= Len(prefix) /\ SubSeq(data, 1, Len(prefix)) = prefix

\* ----------------------------------------------------------------- state
VARIABLES
    config,           \* Config: AZURE_ENDPOINT, AZURE_KEY, OPENAI_API_KEY
    ocr_cache,        \* ExtractionService._ocr_cache: cache key -> client id
    default_ocr_key,  \* ExtractionService._default_ocr_key (<<>> is None)
    llm_cache,        \* ExtractionService._llm_cache: provider -> client id
    built,            \* every client object constructed so far, in order
    pipeline,         \* LocalLLMService._pipeline (NONE until it is loaded)
    prediction_service, \* app.state.prediction_service: its path and model
    model_files,      \* the model files on disk: location -> version (0: no file)
    threads,          \* each request thread inside _get_llm / _resolve_ocr_service
    last              \* the call just completed: its inputs and what it did

vars == <<config, ocr_cache, default_ocr_key, llm_cache, built, pipeline,
          prediction_service, model_files, threads, last>>

\* The empty mapping.
EmptyMap == [x \in {} |-> 0]

\* app.state.prediction_service when it is None.
NoService == [model_path |-> NONE, model |-> 0]

\* Most request threads inside a resolution at one time.
MaxThreads == 2

Threads == 1..MaxThreads

\* A thread that is in no resolution.
IdleThread ==
    [pc |-> "idle", kind |-> "", llm_key |-> "", ocr_key |-> <<>>, local |-> 0,
     got |-> 0, settled |-> FALSE]

\* No thread is in a resolution: requests are served one at a time.
NoThreads == [t \in Threads |-> IdleThread]

\* The caches and constructed objects, threaded through one call.
CurrentStore == [ocr |-> ocr_cache, llm |-> llm_cache, built |-> built]

\* config.azure_configured -- bool(AZURE_ENDPOINT and AZURE_KEY)
AzureConfigured(cfg) == Truthy(cfg.AZURE_ENDPOINT) /\ Truthy(cfg.AZURE_KEY)

\* config.openai_configured -- bool(OPENAI_API_KEY)
OpenaiConfigured(cfg) == Truthy(cfg.OPENAI_API_KEY)

\* (value or "").strip()
OrEmptyStrip(s) == IF s = NONE THEN "" ELSE StripStr(s)

\* AzureOCRService(AzureOCRConfig(endpoint, key)): a new client object.
NewOcrClient(endpoint, key) == [kind |-> "ocr", endpoint |-> endpoint, key |-> key]

\* partial(OpenAILLMService, config)() / partial(LocalLLMService, config)()
NewLlmClient(provider) == [kind |-> "llm", endpoint |-> provider, key |-> ""]

\* ExtractionService.__init__: the default OCR client, when configured.
InitDefaultKey(cfg) ==
    IF AzureConfigured(cfg)
       /\ OrEmptyStrip(cfg.AZURE_ENDPOINT) # "" /\ OrEmptyStrip(cfg.AZURE_KEY) # ""
    THEN <<"azure", OrEmptyStrip(cfg.AZURE_ENDPOINT), OrEmptyStrip(cfg.AZURE_KEY)>>
    ELSE <<>>

\* ------------------------------------------------ _resolve_ocr_service
\* A failed resolution: the store is returned as it was.
ResolveFailed(store, err) == [ok |-> FALSE, err |-> err, svc |-> 0, store |-> store]

\* A resolver without the cache lookup of lines 119-121: it constructs a
\* client on every call and stores it under the key, replacing the one there.
AlwaysNewOcrClient(store, cache_key) ==
    LET id == Len(store.built) + 1 IN
    [ok |-> TRUE, err |-> "", svc |-> id,
     store |-> [store EXCEPT
                  !.built = Append(@, NewOcrClient(cache_key[2], cache_key[3])),
                  !.ocr = (cache_key :> id) @@ @]]

\* Lines 119-126: the cached client of cache_key, constructed on a miss.
CachedOrNewOcrClient(store, cache_key) ==
    IF cache_key \in DOMAIN store.ocr
    THEN [ok |-> TRUE, err |-> "", svc |-> store.ocr[cache_key], store |-> store]
    ELSE LET id == Len(store.built) + 1 IN
         [ok |-> TRUE, err |-> "", svc |-> id,
          store |-> [store EXCEPT
                       !.built = Append(@, NewOcrClient(cache_key[2], cache_key[3])),
                       !.ocr = (cache_key :> id) @@ @]]

\* A dispatch with the precedence of lines 115-116 reversed: the configured
\* endpoint and key are taken first, the per-call ones only when none is set.
ResolveNormalizedDefaultFirst(store, np, ne, nk) ==
    IF np \in {"azure", "azure-vision"}
    THEN LET final_endpoint == IF OrEmptyStrip(config.AZURE_ENDPOINT) # ""
                               THEN OrEmptyStrip(config.AZURE_ENDPOINT)
                               ELSE IF Truthy(ne) THEN ne ELSE ""
             final_key == IF OrEmptyStrip(config.AZURE_KEY) # ""
                          THEN OrEmptyStrip(config.AZURE_KEY)
                          ELSE IF Truthy(nk) THEN nk ELSE ""
         IN IF final_endpoint = "" \/ final_key = ""
            THEN ResolveFailed(store, "OcrNotConfigured")
            ELSE CachedOrNewOcrClient(store, <<"azure", final_endpoint, final_key>>)
    ELSE ResolveFailed(store, "OcrProviderUnavailable")

\* Lines 114-128, with the provider, endpoint and key of lines 100-112.
ResolveNormalized(store, np, ne, nk) ==
    IF np \in {"azure", "azure-vision"}
    THEN LET final_endpoint == IF Truthy(ne) THEN ne
                               ELSE OrEmptyStrip(config.AZURE_ENDPOINT)
             final_key == IF Truthy(nk) THEN nk ELSE OrEmptyStrip(config.AZURE_KEY)
         IN IF final_endpoint = "" \/ final_key = ""
            THEN ResolveFailed(store, "OcrNotConfigured")
            ELSE CachedOrNewOcrClient(store, <<"azure", final_endpoint, final_key>>)
    ELSE ResolveFailed(store, "OcrProviderUnavailable")

\* ExtractionService._resolve_ocr_service(provider, endpoint=, key=)
ResolveOcrService(store, provider, endpoint, key) ==
    LET normalized_provider == IF provider = NONE THEN "" ELSE LowerStr(StripStr(provider))
        normalized_endpoint == IF endpoint = NONE THEN NONE ELSE StripStr(endpoint)
        normalized_key == IF key = NONE THEN NONE ELSE StripStr(key)
    IN IF normalized_provider = ""
       THEN IF ~Truthy(normalized_endpoint) /\ ~Truthy(normalized_key)
            THEN IF default_ocr_key = <<>>
                 THEN ResolveFailed(store, "OcrNotConfigured")
                 ELSE ResolveNormalized(store, default_ocr_key[1],
                                        default_ocr_key[2], default_ocr_key[3])
            ELSE ResolveNormalized(store, "azure", normalized_endpoint, normalized_key)
       ELSE ResolveNormalized(store, normalized_provider,
                              normalized_endpoint, normalized_key)

\* ------------------------------------------------------------- _get_llm
\* The providers registered in _llm_factories (lines 57-58).
LlmFactories == {"api", "local"}

\* self._default_provider (lines 61-63)
DefaultProvider == "api"

\* self._llm_factories[key](): OpenAILLMService raises without a configured
\* key (llm_service.py:82-83); LocalLLMService only stores its settings.
FactorySucceeds(key) == key = "local" \/ OpenaiConfigured(config)

\* A _get_llm without the cache test of line 86: the factory runs on every
\* call and its client replaces the cached one.
GetLlmUncached(store, provider) ==
    LET key == LowerStr(IF Truthy(provider) THEN provider ELSE DefaultProvider) IN
    IF key \notin LlmFactories
    THEN [ok |-> FALSE, err |-> "LlmProviderUnavailable", llm |-> 0, store |-> store]
    ELSE IF ~FactorySucceeds(key)
    THEN [ok |-> FALSE, err |-> "MissingCredential", llm |-> 0, store |-> store]
    ELSE LET id == Len(store.built) + 1 IN
         [ok |-> TRUE, err |-> "", llm |-> id,
          store |-> [store EXCEPT !.built = Append(@, NewLlmClient(key)),
                                  !.llm = (key :> id) @@ @]]

\* ExtractionService._get_llm(provider)
GetLlm(store, provider) ==
    LET key == LowerStr(IF Truthy(provider) THEN provider ELSE DefaultProvider) IN
    IF key \notin LlmFactories
    THEN [ok |-> FALSE, err |-> "LlmProviderUnavailable", llm |-> 0, store |-> store]
    ELSE IF key \in DOMAIN store.llm
    THEN [ok |-> TRUE, err |-> "", llm |-> store.llm[key], store |-> store]
    ELSE IF ~FactorySucceeds(key)
    THEN [ok |-> FALSE, err |-> "MissingCredential", llm |-> 0, store |-> store]
    ELSE LET id == Len(store.built) + 1 IN
         [ok |-> TRUE, err |-> "", llm |-> id,
          store |-> [store EXCEPT !.built = Append(@, NewLlmClient(key)),
                                  !.llm = (key :> id) @@ @]]

\* ------------------------------------------------ vision image payloads
\* base64.b64encode(data).decode("ascii"): an injective encoding of the bytes.
Base64(data) == <<"b64">> \o data

\* ExtractionService._normalize_image_media_type(data, content_type)
NormalizeImageMediaType(data, content_type) ==
    LET normalized == IF content_type = NONE THEN "" ELSE LowerStr(content_type) IN
    IF StartsWithImage(normalized) THEN normalized
    ELSE IF BytesStartWith(data, <<255, 216, 255>>) THEN "image/jpeg"
    ELSE IF BytesStartWith(data, <<137, 80, 78, 71, 13, 10, 26, 10>>) THEN "image/png"
    ELSE IF BytesStartWith(data, <<73, 73, 42, 0>>)
            \/ BytesStartWith(data, <<77, 77, 0, 42>>)
    THEN "image/tiff"
    ELSE "image/png"

\* The loop of _encode_vision_images over images[i..], encoded so far given.
RECURSIVE EncodeLoop(_, _, _, _)
EncodeLoop(images, i, encoded, limit) ==
    IF i > Len(images) THEN encoded
    ELSE IF images[i][1] = <<>> THEN EncodeLoop(images, i + 1, encoded, limit)
    ELSE LET next == Append(encoded,
                            [media_type |-> NormalizeImageMediaType(images[i][1],
                                                                    images[i][2]),
                             data |-> Base64(images[i][1])])
         IN IF Len(next) >= limit THEN next
            ELSE EncodeLoop(images, i + 1, next, limit)

\* ExtractionService._encode_vision_images(images, limit); <<>> is None.
EncodeVisionImages(images, limit) == EncodeLoop(images, 1, <<>>, limit)

\* The default of the limit parameter (line 157).
DefaultVisionLimit == 3

\* ------------------------------------------------- text from PDF by OCR
\* What a text-producing helper hands back: a text, or the error it raised.
TextOk(text, events) == [ok |-> TRUE, err |-> "", text |-> text, events |-> events]
TextErr(err, events) == [ok |-> FALSE, err |-> err, text |-> <<>>, events |-> events]

\* n times the event e.
Repeat(e, n) == [i \in 1..n |-> e]

\* "\n\n".join(fragments)
RECURSIVE JoinBlank(_)
JoinBlank(fragments) ==
    IF fragments = <<>> THEN <<>>
    ELSE IF Len(fragments) = 1 THEN fragments[1]
    ELSE fragments[1] \o <<"\n", "\n">> \o JoinBlank(Tail(fragments))

\* Truth of a text (a non-empty str).
NonEmpty(t) == t # <<>>

\* A join of the page texts that keeps the empty ones.
JoinAllPageTexts(texts) == JoinBlank(texts)

\* Lines 206-211: the page texts that are kept, stripped, joined.
JoinPageTexts(texts) ==
    LET fragments == SelectSeq(texts, NonEmpty)
        stripped == [i \in 1..Len(fragments) |-> Strip(fragments[i])]
    IN JoinBlank(SelectSeq(stripped, NonEmpty))

\* Lines 192-214: after an empty first OCR answer.
PdfOcrAfterEmptyRaw(env, events) ==
    IF env.renderRaises THEN TextErr("RenderError", Append(events, "render"))
    ELSE IF env.pages = <<>>
    THEN LET ev == events \o <<"render", "ocr_raw">> IN
         IF env.raw2 = <<>> THEN TextErr("OcrExtractionFailed", ev)
         ELSE TextOk(env.raw2, ev)
    ELSE IF env.pageRaisesAt \in 1..Len(env.pages)
    THEN TextErr("OcrServiceError",
                 Append(events, "render") \o Repeat("ocr_page", env.pageRaisesAt))
    ELSE LET ev == Append(events, "render") \o Repeat("ocr_page", Len(env.pages))
             joined == JoinPageTexts(env.pageOcr)
         IN IF joined = <<>> THEN TextErr("OcrExtractionFailed", ev)
            ELSE TextOk(joined, ev)

\* ExtractionService._extract_text_from_pdf_with_ocr(data, ocr_service);
\* svc = 0 is None.
ExtractTextFromPdfWithOcr(svc, env, events) ==
    IF svc = 0 THEN TextErr("OcrNotConfigured", events)
    ELSE IF env.raw1Raises THEN TextErr("OcrServiceError", Append(events, "ocr_raw"))
    ELSE IF env.raw1 # <<>> THEN TextOk(env.raw1, Append(events, "ocr_raw"))
    ELSE PdfOcrAfterEmptyRaw(env, Append(events, "ocr_raw"))

\* PDFTextExtractor.read_text(data), as the document answers it.
ReadText(doc, events) ==
    IF doc.readRaises THEN TextErr("PdfReadError", Append(events, "read_text"))
    ELSE TextOk(doc.readText, Append(events, "read_text"))

\* A reader of the file's text without the OCR fallback of line 237: the
\* embedded text of a PDF is returned as read, empty or not.
ExtractTextFromFileNoFallback(filename, doc, content_type, force_ocr, svc, env, events) ==
    LET suffix == SuffixOf(filename)
        normalized_content_type ==
            IF content_type = NONE THEN "" ELSE LowerStr(content_type)
    IN IF suffix \in PDF_EXTENSIONS \/ normalized_content_type = "application/pdf"
       THEN IF force_ocr THEN ExtractTextFromPdfWithOcr(svc, env, events)
            ELSE ReadText(doc, events)
       ELSE IF suffix \in TEXT_EXTENSIONS \/ suffix \in XML_EXTENSIONS
       THEN TextOk(DecodeUtf8(doc.bytes), Append(events, "decode"))
       ELSE IF svc = 0 THEN TextErr("OcrNotConfigured", events)
       ELSE IF env.raw1Raises
       THEN TextErr("OcrServiceError", Append(events, "ocr_raw"))
       ELSE TextOk(env.raw1, Append(events, "ocr_raw"))

\* ExtractionService._extract_text_from_file(filename, data, content_type,
\*                                            force_ocr=, ocr_service=)
ExtractTextFromFile(filename, doc, content_type, force_ocr, svc, env, events) ==
    LET suffix == SuffixOf(filename)
        normalized_content_type ==
            IF content_type = NONE THEN "" ELSE LowerStr(content_type)
    IN IF suffix \in PDF_EXTENSIONS \/ normalized_content_type = "application/pdf"
       THEN IF force_ocr THEN ExtractTextFromPdfWithOcr(svc, env, events)
            ELSE LET read == ReadText(doc, events) IN
                 IF ~read.ok THEN read
                 ELSE IF read.text # <<>> THEN read
                 ELSE ExtractTextFromPdfWithOcr(svc, env, read.events)
       ELSE IF suffix \in TEXT_EXTENSIONS \/ suffix \in XML_EXTENSIONS
       THEN TextOk(DecodeUtf8(doc.bytes), Append(events, "decode"))
       ELSE IF svc = 0 THEN TextErr("OcrNotConfigured", events)
       ELSE IF suffix \in PDF_EXTENSIONS
       THEN ExtractTextFromPdfWithOcr(svc, env, events)
       ELSE IF env.raw1Raises
       THEN TextErr("OcrServiceError", Append(events, "ocr_raw"))
       ELSE TextOk(env.raw1, Append(events, "ocr_raw"))

\* ------------------------------------------------------ the operations
\* What a call of an operation did: what it returned ("result": an
\* ExtractionResult; "str": a bare text; "error": it raised err), what it
\* sent to the LLM client, and the collaborators it used, in order.
CallOutcome(kind, err, raw_text, text_origin, llm_text, llm_images, events, svc, store) ==
    [kind |-> kind, err |-> err, raw_text |-> raw_text, text_origin |-> text_origin,
     llm_text |-> llm_text, llm_images |-> llm_images, events |-> events,
     svc |-> svc, store |-> store]

\* A call that raised err.
Raised(err, events, svc, store) ==
    CallOutcome("error", err, <<>>, "", <<>>, <<>>, events, svc, store)

\* ExtractionService.extract_from_text(text, provider=, vision_images=,
\*                                      text_origin=)
ExtractFromText(store, text, provider, vision_images, text_origin, env, events, svc) ==
    LET got == GetLlm(store, provider) IN
    IF ~got.ok THEN Raised(got.err, Append(events, "get_llm"), svc, got.store)
    ELSE IF ~env.llmOk
    THEN CallOutcome("error", "LlmError", <<>>, "", text, vision_images,
                     events \o <<"get_llm", "llm_extract">>, svc, got.store)
    ELSE CallOutcome("result", "", text, text_origin, text, vision_images,
                     events \o <<"get_llm", "llm_extract">>, svc, got.store)

\* Lines 311-343 of extract_from_image, once the OCR client is resolved.
ImageAfterResolve(store, svc, filename, doc, content_type, provider, env, events) ==
    LET suffix == SuffixOf(filename)
        ct == IF Truthy(content_type) THEN LowerStr(content_type)
              ELSE GuessType(filename)
    IN IF suffix \in PDF_EXTENSIONS \/ ct = "application/pdf"
       THEN LET t == ExtractTextFromPdfWithOcr(svc, env, events) IN
            IF t.ok
            THEN CallOutcome("str", "", t.text, "", <<>>, <<>>, t.events, svc, store)
            ELSE Raised(t.err, t.events, svc, store)
       ELSE IF suffix # <<>> /\ suffix \notin IMAGE_EXTENSIONS
               /\ ~StartsWithImage(IF ct = NONE THEN "" ELSE ct)
       THEN Raised("UnsupportedImageFormat", events, svc, store)
       ELSE IF env.raw1Raises
       THEN Raised("OcrServiceError", Append(events, "ocr_raw"), svc, store)
       ELSE IF env.raw1 = <<>>
       THEN Raised("OcrExtractionFailed", Append(events, "ocr_raw"), svc, store)
       ELSE ExtractFromText(store, env.raw1, provider,
                            EncodeVisionImages(<< <<doc.bytes, ct>> >>, 1),
                            "ocr", env, Append(events, "ocr_raw"), svc)

\* ExtractionService.extract_from_image(filename, data, content_type, ...)
ExtractFromImage(store, filename, doc, content_type, provider, ocr, env, events) ==
    LET r == ResolveOcrService(store, ocr.provider, ocr.endpoint, ocr.key) IN
    IF ~r.ok THEN Raised(r.err, Append(events, "resolve_ocr"), 0, r.store)
    ELSE ImageAfterResolve(r.store, r.svc, filename, doc, content_type, provider,
                           env, Append(events, "resolve_ocr"))

\* ExtractionService._needs_ocr(extension, text)
NeedsOcr(extension, text) ==
    IF extension \in IMAGE_EXTENSIONS THEN TRUE
    ELSE IF extension \in PDF_EXTENSIONS /\ text = <<>> THEN TRUE
    ELSE FALSE

\* Lines 432-438 of extract_from_file: the page images of a PDF, when vision
\* is on; a renderer that raises leaves None (<<>>).
VisionImagesOf(use_vision, suffix, env) ==
    IF use_vision /\ suffix \in PDF_EXTENSIONS
    THEN IF env.renderRaises THEN <<>>
         ELSE EncodeVisionImages(env.pages, DefaultVisionLimit)
    ELSE <<>>

\* The events of lines 432-438.
VisionEvents(use_vision, suffix) ==
    IF use_vision /\ suffix \in PDF_EXTENSIONS THEN <<"render_vision">> ELSE <<>>

\* A tail of extract_from_file in which the rendering of lines 432-438 is
\* not guarded: a renderer that raises or gives no page ends the call.
FileAfterDirectReadRenderFatal(store, filename, doc, content_type, force_ocr, use_vision, provider, ocr, env, direct, events) ==
    LET suffix == SuffixOf(filename)
        fatal == /\ use_vision /\ suffix \in PDF_EXTENSIONS
                 /\ (env.renderRaises \/ env.pages = <<>>)
    IN
    IF force_ocr \/ NeedsOcr(suffix, direct) \/ direct = <<>>
    THEN LET r == ResolveOcrService(store, ocr.provider, ocr.endpoint, ocr.key) IN
         IF ~r.ok THEN Raised(r.err, Append(events, "resolve_ocr"), 0, r.store)
         ELSE LET t == ExtractTextFromFile(filename, doc, content_type, force_ocr,
                                           r.svc, env, Append(events, "resolve_ocr"))
              IN IF ~t.ok THEN Raised(t.err, t.events, r.svc, r.store)
                 ELSE IF fatal
                 THEN Raised("RenderError", t.events \o VisionEvents(use_vision, suffix),
                             r.svc, r.store)
                 ELSE ExtractFromText(r.store, t.text, provider,
                                      VisionImagesOf(use_vision, suffix, env), "ocr",
                                      env, t.events \o VisionEvents(use_vision, suffix),
                                      r.svc)
    ELSE IF fatal
    THEN Raised("RenderError", events \o VisionEvents(use_vision, suffix), 0, store)
    ELSE ExtractFromText(store, direct, provider,
                         VisionImagesOf(use_vision, suffix, env), "file", env,
                         events \o VisionEvents(use_vision, suffix), 0)

\* Lines 423-451 of extract_from_file: the text read directly is `direct`.
FileAfterDirectRead(store, filename, doc, content_type, force_ocr, use_vision, provider, ocr, env, direct, events) ==
    LET suffix == SuffixOf(filename) IN
    IF force_ocr \/ NeedsOcr(suffix, direct) \/ direct = <<>>
    THEN LET r == ResolveOcrService(store, ocr.provider, ocr.endpoint, ocr.key) IN
         IF ~r.ok THEN Raised(r.err, Append(events, "resolve_ocr"), 0, r.store)
         ELSE LET t == ExtractTextFromFile(filename, doc, content_type, force_ocr,
                                           r.svc, env, Append(events, "resolve_ocr"))
              IN IF ~t.ok THEN Raised(t.err, t.events, r.svc, r.store)
                 ELSE ExtractFromText(r.store, t.text, provider,
                                      VisionImagesOf(use_vision, suffix, env), "ocr",
                                      env, t.events \o VisionEvents(use_vision, suffix),
                                      r.svc)
    ELSE ExtractFromText(store, direct, provider,
                         VisionImagesOf(use_vision, suffix, env), "file", env,
                         events \o VisionEvents(use_vision, suffix), 0)

\* An extract_from_file that does not honour force_ocr: the file is always
\* read directly first.
ExtractFromFileUnforced(store, filename, doc, content_type, force_ocr0, use_vision0, provider, ocr, env) ==
    LET suffix == SuffixOf(filename)
        normalized_content_type ==
            IF content_type = NONE THEN "" ELSE LowerStr(content_type)
        use_vision == use_vision0 /\ (\/ suffix \in PDF_EXTENSIONS
                                      \/ suffix \in IMAGE_EXTENSIONS
                                      \/ StartsWithImage(normalized_content_type)
                                      \/ normalized_content_type = "application/pdf")
    IN IF suffix \in IMAGE_EXTENSIONS
       THEN ExtractFromImage(store, filename, doc, content_type, provider, ocr, env,
                             <<"extract_from_image">>)
       ELSE IF suffix \in PDF_EXTENSIONS
       THEN LET read == ReadText(doc, <<>>) IN
            IF ~read.ok THEN Raised(read.err, read.events, 0, store)
            ELSE FileAfterDirectRead(store, filename, doc, content_type, FALSE,
                                     use_vision, provider, ocr, env, read.text,
                                     read.events)
       ELSE IF suffix \in TEXT_EXTENSIONS \/ suffix \in XML_EXTENSIONS
       THEN FileAfterDirectRead(store, filename, doc, content_type, FALSE,
                                use_vision, provider, ocr, env,
                                DecodeUtf8(doc.bytes), <<"decode">>)
       ELSE FileAfterDirectRead(store, filename, doc, content_type, FALSE,
                                use_vision, provider, ocr, env, <<>>, <<>>)

\* ExtractionService.extract_from_file(filename, data, content_type,
\*                                      force_ocr=, use_vision=, ...)
ExtractFromFile(store, filename, doc, content_type, force_ocr0, use_vision0, provider, ocr, env) ==
    LET suffix == SuffixOf(filename)
        normalized_content_type ==
            IF content_type = NONE THEN "" ELSE LowerStr(content_type)
        allow_vision == \/ suffix \in PDF_EXTENSIONS
                        \/ suffix \in IMAGE_EXTENSIONS
                        \/ StartsWithImage(normalized_content_type)
                        \/ normalized_content_type = "application/pdf"
        use_vision == use_vision0 /\ allow_vision
        force_ocr == force_ocr0 /\ suffix \in PDF_EXTENSIONS
    IN IF suffix \in IMAGE_EXTENSIONS
       THEN ExtractFromImage(store, filename, doc, content_type, provider, ocr, env,
                             <<"extract_from_image">>)
       ELSE IF ~force_ocr /\ suffix \in PDF_EXTENSIONS
       THEN LET read == ReadText(doc, <<>>) IN
            IF ~read.ok THEN Raised(read.err, read.events, 0, store)
            ELSE FileAfterDirectRead(store, filename, doc, content_type, force_ocr,
                                     use_vision, provider, ocr, env, read.text,
                                     read.events)
       ELSE IF ~force_ocr /\ (suffix \in TEXT_EXTENSIONS \/ suffix \in XML_EXTENSIONS)
       THEN FileAfterDirectRead(store, filename, doc, content_type, force_ocr,
                                use_vision, provider, ocr, env,
                                DecodeUtf8(doc.bytes), <<"decode">>)
       ELSE FileAfterDirectRead(store, filename, doc, content_type, force_ocr,
                                use_vision, provider, ocr, env, <<>>, <<>>)

\* ------------------------------------------------- inputs of the calls
\* File names: PDF (in upper case), image, XML, JSON, an unrecognised binary
\* format, and a name with no extension.
FileNames ==
    { <<"f", ".", "P", "D", "F">>, <<"i", ".", "p", "n", "g">>, <<"d", ".", "x", "m", "l">>,
      <<"d", ".", "j", "s", "o", "n">>, <<"b", ".", "b", "i", "n">>, <<"s">> }

\* Declared content types.
ContentTypes == {NONE, "Application/PDF", "image/png", "text/plain"}

\* The bytes of a non-empty upload: an ASCII byte and an invalid one.
SomeBytes == <<65, 255>>

\* What PDFTextExtractor.read_text answers on the uploaded bytes: it raises
\* (PdfReader rejects them), finds no text, or finds the embedded text.
Docs ==
    { [bytes |-> <<>>, readRaises |-> TRUE, readText |-> <<>>],
      [bytes |-> SomeBytes, readRaises |-> FALSE, readText |-> <<>>],
      [bytes |-> SomeBytes, readRaises |-> FALSE, readText |-> <<"d", "o", "c">>] }

\* The image render_page_images gives for page i.
PageImage(i) == << <<137, i>>, "image/png" >>

\* The text the OCR service recognises on page i.
PageText(i) == IF i = 1 THEN <<"p", "1">> ELSE IF i = 2 THEN <<"p", "2">>
               ELSE <<"p", "n">>

\* The text the OCR service recognises on the uploaded bytes.
RawText == <<"r", "a", "w">>

\* All page-OCR answers for n pages: each page empty or recognised.
PageOcrChoices(n) ==
    { [i \in 1..n |-> IF i \in S THEN PageText(i) ELSE <<>>] : S \in SUBSET (1..n) }

\* One oracle answer set.
Env(raw1Raises, raw1, raw2, renderRaises, n, pageOcr, pageRaisesAt, llmOk) ==
    [raw1Raises |-> raw1Raises, raw1 |-> raw1, raw2 |-> raw2,
     renderRaises |-> renderRaises, pages |-> [i \in 1..n |-> PageImage(i)],
     pageOcr |-> pageOcr, pageRaisesAt |-> pageRaisesAt, llmOk |-> llmOk]

\* The answers of the collaborators during one call on doc: the OCR service
\* on the uploaded bytes (first call raw1, a repeated call raw2), the page
\* renderer, the OCR service on each page, and the LLM client.  Answers the
\* code cannot consume together are not multiplied out; an empty upload
\* has no pages and no recognisable text.
Envs(doc) ==
    IF doc.bytes = <<>>
    THEN { Env(TRUE, <<>>, <<>>, FALSE, 0, <<>>, 0, ok) : ok \in BOOLEAN }
         \cup { Env(FALSE, <<>>, <<>>, rr, 0, <<>>, 0, ok) : rr \in BOOLEAN, ok \in BOOLEAN }
    ELSE UNION { UNION {
           { Env(TRUE, <<>>, <<>>, FALSE, n, [i \in 1..n |-> <<>>], 0, ok),
             Env(FALSE, RawText, <<>>, FALSE, n, [i \in 1..n |-> <<>>], 0, ok) }
           \cup { Env(FALSE, <<>>, <<>>, FALSE, n, po, 0, ok) : po \in PageOcrChoices(n) }
           \cup { Env(FALSE, <<>>, <<>>, FALSE, n, [i \in 1..n |-> PageText(i)], k, ok)
                  : k \in 1..n }
           : n \in 0..MaxPages }
           \cup { Env(TRUE, <<>>, <<>>, TRUE, 0, <<>>, 0, ok),
                  Env(FALSE, RawText, <<>>, TRUE, 0, <<>>, 0, ok),
                  Env(FALSE, <<>>, <<>>, TRUE, 0, <<>>, 0, ok),
                  Env(FALSE, <<>>, RawText, FALSE, 0, <<>>, 0, ok) }
           : ok \in BOOLEAN }

\* The OCR overrides a file or image call passes: none, or a full override.
CallOcrArgs ==
    { [provider |-> NONE, endpoint |-> NONE, key |-> NONE],
      [provider |-> "Azure", endpoint |-> " e1 ", key |-> "k1"] }

\* Configurations: Azure OCR configured or not, OpenAI key present or not.
Configs ==
    { [AZURE_ENDPOINT |-> a[1], AZURE_KEY |-> a[2], OPENAI_API_KEY |-> o] :
        a \in { <<NONE, NONE>>, <<"e0", "k0">> }, o \in {NONE, "sk"} }

\* Texts given to extract_from_text.
InputTexts == { <<>>, <<" ">>, <<"A">>, <<" ", "A", "\n">> }

\* LLM provider names given to extract_from_text.
TextProviders == {NONE, "bogus"}

\* ------------------------------------------------------- state machine
\* No call in progress: the orchestrator waits for the next request.
NoCall == [op |-> "none"]

\* What is kept of a call's outcome for inspection.
Observe(out) ==
    [kind |-> out.kind, err |-> out.err, raw_text |-> out.raw_text,
     text_origin |-> out.text_origin, llm_text |-> out.llm_text,
     llm_images |-> out.llm_images, events |-> out.events, svc |-> out.svc]

\* ExtractionService.__init__(config)
Init ==
    /\ config \in Configs
    /\ default_ocr_key = InitDefaultKey(config)
    /\ ocr_cache = IF default_ocr_key = <<>> THEN EmptyMap ELSE (default_ocr_key :> 1)
    /\ built = IF default_ocr_key = <<>> THEN <<>>
               ELSE <<NewOcrClient(default_ocr_key[2], default_ocr_key[3])>>
    /\ llm_cache = EmptyMap
    /\ pipeline = NONE
    /\ prediction_service = NoService
    /\ model_files = EmptyMap
    /\ threads = NoThreads
    /\ last = NoCall

\* The store a call leaves behind; calls are served one at a time.
Commit(out) ==
    /\ Len(out.store.built) <= MaxInstances
    /\ ocr_cache' = out.store.ocr
    /\ llm_cache' = out.store.llm
    /\ built' = out.store.built
    /\ UNCHANGED <<config, default_ocr_key, pipeline, prediction_service, model_files, threads>>

\* A call of extract_from_file.
CallExtractFromFile ==
    /\ last = NoCall
    /\ \E filename \in FileNames, content_type \in ContentTypes,
       force_ocr \in BOOLEAN, use_vision \in BOOLEAN, doc \in Docs,
       ocr \in CallOcrArgs :
      \E env \in Envs(doc) :
        LET out == ExtractFromFile(CurrentStore, filename, doc, content_type,
                                   force_ocr, use_vision, NONE, ocr, env)
        IN /\ Commit(out)
           /\ last' = [op |-> "extract_from_file", filename |-> filename,
                       content_type |-> content_type, force_ocr |-> force_ocr,
                       use_vision |-> use_vision, doc |-> doc, ocr |-> ocr,
                       env |-> env, out |-> Observe(out)]

\* A call of extract_from_image.
CallExtractFromImage ==
    /\ last = NoCall
    /\ \E filename \in FileNames, content_type \in ContentTypes, doc \in Docs,
       ocr \in CallOcrArgs :
      \E env \in Envs(doc) :
        LET out == ExtractFromImage(CurrentStore, filename, doc, content_type,
                                    NONE, ocr, env, <<>>)
        IN /\ Commit(out)
           /\ last' = [op |-> "extract_from_image", filename |-> filename,
                       content_type |-> content_type, doc |-> doc, ocr |-> ocr,
                       env |-> env, out |-> Observe(out)]

\* A call of extract_from_text with the default text_origin and no images.
CallExtractFromText ==
    /\ last = NoCall
    /\ \E text \in InputTexts, provider \in TextProviders, llmOk \in BOOLEAN :
        LET out == ExtractFromText(CurrentStore, text, provider, <<>>, "input",
                                   [llmOk |-> llmOk], <<>>, 0)
        IN /\ Commit(out)
           /\ last' = [op |-> "extract_from_text", text |-> text,
                       provider |-> provider, out |-> Observe(out)]

\* The caller takes the outcome; the orchestrator is ready for the next call.
Return ==
    /\ last # NoCall
    /\ last' = NoCall
    /\ UNCHANGED <<config, ocr_cache, default_ocr_key, llm_cache, built, pipeline,
                 prediction_service, model_files, threads>>

Next == CallExtractFromFile \/ CallExtractFromImage \/ CallExtractFromText \/ Return

Spec == Init /\ [][Next]_vars

\* ------------------------------------- OCR client resolutions in sequence
\* Configurations for the resolution of OCR clients: none, complete, an
\* endpoint without a key, and a blank endpoint.
CacheConfigs ==
    { [AZURE_ENDPOINT |-> a[1], AZURE_KEY |-> a[2], OPENAI_API_KEY |-> NONE] :
        a \in { <<NONE, NONE>>, <<"e0", "k0">>, <<"e0", NONE>>, <<"  ", "k0">> } }

\* Provider, endpoint and key overrides given to _resolve_ocr_service.
OcrProviders == {NONE, "Azure", "azure-vision", "tesseract"}
OcrEndpoints == {NONE, "  ", "e1", " e1 "}
OcrKeys == {NONE, "k1", " k1 ", "k2"}

\* ExtractionService.__init__(config), over CacheConfigs.
InitCache ==
    /\ config \in CacheConfigs
    /\ default_ocr_key = InitDefaultKey(config)
    /\ ocr_cache = IF default_ocr_key = <<>> THEN EmptyMap ELSE (default_ocr_key :> 1)
    /\ built = IF default_ocr_key = <<>> THEN <<>>
               ELSE <<NewOcrClient(default_ocr_key[2], default_ocr_key[3])>>
    /\ llm_cache = EmptyMap
    /\ pipeline = NONE
    /\ prediction_service = NoService
    /\ model_files = EmptyMap
    /\ threads = NoThreads
    /\ last = NoCall

\* A call of _resolve_ocr_service.
CallResolveOcr ==
    /\ last = NoCall
    /\ \E provider \in OcrProviders, endpoint \in OcrEndpoints, key \in OcrKeys :
        LET r == ResolveOcrService(CurrentStore, provider, endpoint, key)
        IN /\ Commit(r)
           /\ last' = [op |-> "resolve_ocr", provider |-> provider,
                       endpoint |-> endpoint, key |-> key,
                       out |-> [ok |-> r.ok, err |-> r.err, svc |-> r.svc]]

NextCache == CallResolveOcr \/ Return

SpecCache == InitCache /\ [][NextCache]_vars

\* ============================================================= claims
\* Vocabulary of the claims, over the call just completed.
IsFileCall == last.op = "extract_from_file"
IsImageCall == last.op = "extract_from_image"
IsTextCall == last.op = "extract_from_text"
IsResolveCall == last.op = "resolve_ocr"

\* The event e happened during the call.
Has(e) == \E i \in 1..Len(last.out.events) : last.out.events[i] = e

\* How many times the event e happened during the call.
Count(e) == Cardinality({ i \in 1..Len(last.out.events) : last.out.events[i] = e })

\* The OCR client's extract_text was invoked during the call.
OcrInvoked == Has("ocr_raw") \/ Has("ocr_page")

\* render_page_images was invoked during the call.
RenderInvoked == Has("render") \/ Has("render_vision")

\* The call returned an ExtractionResult.
ReturnedResult == last.out.kind = "result"

\* The lower-cased extension and declared content type of the call's file.
CallSuffix == SuffixOf(last.filename)
CallContentType == IF last.content_type = NONE THEN "" ELSE LowerStr(last.content_type)

\* The extension or the declared content type indicates PDF.
IndicatesPdf == CallSuffix \in PDF_EXTENSIONS \/ CallContentType = "application/pdf"

\* A file handled as a PDF: the extension or declared content type says PDF,
\* and the extension is not one of an image (routed to the image handler)
\* or of XML / JSON (decoded as text).
IsPdfFile ==
    /\ IndicatesPdf
    /\ CallSuffix \notin IMAGE_EXTENSIONS \cup TEXT_EXTENSIONS \cup XML_EXTENSIONS

\* read_text answers the embedded text of the call's document.
HasEmbeddedText == ~last.doc.readRaises /\ last.doc.readText # <<>>
HasNoEmbeddedText == ~last.doc.readRaises /\ last.doc.readText = <<>>

\* C1: for extract_from_file on a file whose extension or declared content
\* type indicates PDF, with force_ocr = False and read_text returning
\* non-empty text, the result has text_origin "file", the text sent to the
\* LLM is exactly the directly read text, and the OCR client is never
\* invoked during the call.
C1_DirectPdfTextIsFile ==
    (IsFileCall /\ IsPdfFile /\ ~last.force_ocr /\ HasEmbeddedText)
        => /\ ~OcrInvoked
           /\ Has("llm_extract") => last.out.llm_text = last.doc.readText
           /\ ReturnedResult => last.out.text_origin = "file"

\* C2: for extract_from_file on a PDF for which read_text returns the empty
\* string, whatever force_ocr is, the OCR path is always taken (an OCR client
\* is required, and once resolved its extract_text is invoked), a returned
\* result has text_origin "ocr", and the text sent to the LLM is never the
\* empty direct text.
C2_EmptyPdfTextGoesToOcr ==
    (IsFileCall /\ IsPdfFile /\ HasNoEmbeddedText)
        => /\ Has("resolve_ocr")
           /\ last.out.svc # 0 => OcrInvoked
           /\ ReturnedResult => last.out.text_origin = "ocr"
           /\ Has("llm_extract") => last.out.llm_text # <<>>

\* Witness of C2: a PDF without embedded text, not forced, whose text came
\* from OCR and was sent to the LLM.
C2_Witness ==
    /\ IsFileCall /\ IsPdfFile /\ HasNoEmbeddedText /\ ~last.force_ocr
    /\ ReturnedResult /\ OcrInvoked /\ last.out.text_origin = "ocr"
    /\ last.out.llm_text = RawText

\* C3: for a file with extension .xml or .json and any byte content,
\* extract_from_file never enters the OCR path, never renders or attaches
\* vision images, and returns text_origin "file" with the UTF-8 decoding of
\* the bytes as text, for every force_ocr and use_vision.
C3_XmlJsonNeverOcr ==
    (IsFileCall /\ CallSuffix \in TEXT_EXTENSIONS \cup XML_EXTENSIONS)
        => /\ ~Has("resolve_ocr") /\ ~OcrInvoked
           /\ ~RenderInvoked /\ last.out.llm_images = <<>>
           /\ ReturnedResult => /\ last.out.text_origin = "file"
                                /\ last.out.raw_text = DecodeUtf8(last.doc.bytes)

\* C4: for a file with an image extension, extract_from_file delegates to
\* extract_from_image whatever force_ocr and use_vision are; a call that
\* returns has performed OCR on the bytes, attached exactly one vision image
\* (the uploaded bytes) to the LLM call, and returns a result with
\* text_origin "ocr".
C4_ImageFileOcrAndOneImage ==
    (IsFileCall /\ CallSuffix \in IMAGE_EXTENSIONS)
        => /\ last.out.events[1] = "extract_from_image"
           /\ last.out.kind # "error"
                => /\ Has("ocr_raw") /\ Has("llm_extract")
                   /\ Len(last.out.llm_images) = 1
                   /\ last.out.llm_images[1].data = Base64(last.doc.bytes)
                   /\ ReturnedResult /\ last.out.text_origin = "ocr"

\* C5: a result of extract_from_file has text_origin "ocr" if and only if OCR
\* was used in the call, and "file" if and only if the text came from direct
\* reading alone.
C5_OriginIffOcrUsed ==
    (IsFileCall /\ ReturnedResult)
        => /\ last.out.text_origin = "ocr" <=> OcrInvoked
           /\ last.out.text_origin = "file" <=> ~OcrInvoked

\* C6: extract_from_text fails with InvalidInput when the text is empty after
\* trimming, without resolving or invoking an LLM client; for non-empty text
\* and no origin override a result has text_origin "input".
C6_BlankTextRejected ==
    IsTextCall
        => /\ Strip(last.text) = <<>>
                => /\ last.out.kind = "error" /\ last.out.err = "InvalidInput"
                   /\ ~Has("get_llm") /\ ~Has("llm_extract")
           /\ (Strip(last.text) # <<>> /\ ReturnedResult)
                => last.out.text_origin = "input"

\* Every OCR attempt of the call returned the empty text.
AllOcrAttemptsEmpty ==
    /\ OcrInvoked
    /\ ~last.env.raw1Raises /\ last.env.raw1 = <<>>
    /\ Count("ocr_raw") >= 2 => last.env.raw2 = <<>>
    /\ \A i \in 1..Count("ocr_page") : last.env.pageOcr[i] = <<>>

\* C7: when extract_from_file or extract_from_image needs OCR and every OCR
\* attempt of the request returns empty text, the call fails with
\* OcrExtractionFailed and the LLM client is never invoked.
C7_EmptyOcrFails ==
    ((IsFileCall \/ IsImageCall) /\ AllOcrAttemptsEmpty)
        => /\ last.out.kind = "error" /\ last.out.err = "OcrExtractionFailed"
           /\ ~Has("llm_extract")

\* C8: every extract_from_image call that returns, for an image or for a PDF,
\* returns an ExtractionResult with text_origin "ocr" made by invoking the
\* LLM on the OCR text; a PDF's text comes from OCR, never from read_text.
C8_ImageCallReturnsOcrResult ==
    (IsImageCall /\ last.out.kind # "error")
        => /\ ReturnedResult /\ last.out.text_origin = "ocr"
           /\ OcrInvoked /\ ~Has("read_text")
           /\ Has("llm_extract") /\ last.out.llm_text = last.out.raw_text

\* C9: with an OCR client available, extract_from_image fails with
\* UnsupportedImageFormat, before any OCR or LLM call, for every file name
\* and content type that is neither an image (image extension, or content
\* type starting with image/) nor a PDF.
C9_NonImageRejected ==
    (/\ IsImageCall /\ last.out.svc # 0
     /\ CallSuffix \notin IMAGE_EXTENSIONS /\ ~StartsWithImage(CallContentType)
     /\ ~IndicatesPdf)
        => /\ last.out.kind = "error" /\ last.out.err = "UnsupportedImageFormat"
           /\ ~OcrInvoked /\ ~Has("llm_extract")

\* The endpoint and credential a resolution is for: the override when one is
\* given, else the configured one.
EffectiveEndpoint ==
    IF Truthy(OrEmptyStrip(last.endpoint)) THEN StripStr(last.endpoint)
    ELSE OrEmptyStrip(config.AZURE_ENDPOINT)
EffectiveKey ==
    IF Truthy(OrEmptyStrip(last.key)) THEN StripStr(last.key)
    ELSE OrEmptyStrip(config.AZURE_KEY)

\* Every cached OCR client is the client of its key, and two keys never
\* share a client; a resolution that succeeds returns the cached client
\* of its (provider, endpoint, credential).
OcrCacheConsistent ==
    /\ \A k \in DOMAIN ocr_cache :
          /\ ocr_cache[k] \in 1..Len(built)
          /\ built[ocr_cache[k]] = NewOcrClient(k[2], k[3])
    /\ \A k1, k2 \in DOMAIN ocr_cache : k1 # k2 => ocr_cache[k1] # ocr_cache[k2]
    /\ (IsResolveCall /\ last.out.ok)
          => /\ <<"azure", EffectiveEndpoint, EffectiveKey>> \in DOMAIN ocr_cache
             /\ last.out.svc = ocr_cache[<<"azure", EffectiveEndpoint, EffectiveKey>>]

\* No step, a failed resolution included, evicts or replaces a cached client.
OcrCacheKept ==
    \A k \in DOMAIN ocr_cache : k \in DOMAIN ocr_cache' /\ ocr_cache'[k] = ocr_cache[k]

\* C10: across any sequence of OCR client resolutions on one orchestrator,
\* resolutions with the same (provider, endpoint, credential) return the same
\* cached client, resolutions with different credentials return distinct
\* clients, and a cached entry is never evicted or replaced.
C10_OcrCacheStable == []OcrCacheConsistent /\ [][OcrCacheKept]_vars

\* Witness of C10: with three clients cached, a resolution with an override
\* returned a client that an earlier call had constructed.
C10_Witness ==
    /\ IsResolveCall /\ last.out.ok /\ last.key # NONE
    /\ Cardinality(DOMAIN ocr_cache) >= 3
    /\ last.out.svc # Len(built) /\ last.out.svc # 1

\* ------------------------------------------------------- routes/extract.py
\* The rejection of a request by a route (HTTPException with status 400).
HTTP400 == "<HTTP 400>"

\* _normalize_optional_string(value): the trimmed string, None when blank.
NormalizeOptionalString(value) ==
    IF value = NONE THEN NONE
    ELSE IF StripStr(value) = "" THEN NONE ELSE StripStr(value)

\* _normalize_ocr_provider(value): None, "azure-vision", or a rejection.
NormalizeOcrProvider(value) ==
    LET normalized == NormalizeOptionalString(value) IN
    IF normalized = NONE THEN NONE
    ELSE IF LowerStr(normalized) \in {"azure-vision", "azure_vision", "azurevision", "azure"}
    THEN "azure-vision"
    ELSE HTTP400

\* The provider of the resolution, as _resolve_ocr_service compares it.
ResolutionProvider == IF last.provider = NONE THEN "" ELSE LowerStr(StripStr(last.provider))

\* No provider is named, or the one named is an OCR provider of the service.
ProviderKnown == ResolutionProvider \in {"", "azure", "azure-vision"}

\* The call gives an endpoint (a key) of its own.
OverridesEndpoint == Truthy(OrEmptyStrip(last.endpoint))
OverridesKey == Truthy(OrEmptyStrip(last.key))

RendererOutcomes ==
    { [available |-> FALSE, raises |-> FALSE, ok |-> <<>>],
      [available |-> TRUE, raises |-> TRUE, ok |-> <<>>] }
    \cup UNION { { [available |-> TRUE, raises |-> FALSE, ok |-> ok] :
                     ok \in [1..n -> BOOLEAN] } : n \in 0..MaxPages }

\* The loop over the pages of a renderer: the pages that fail are skipped.
\* The image of page i is PageImage(base + i).
RECURSIVE RenderLoop(_, _, _, _)
RenderLoop(ok, i, rendered, base) ==
    IF i > Len(ok) THEN rendered
    ELSE IF ok[i] THEN RenderLoop(ok, i + 1, Append(rendered, PageImage(base + i)), base)
    ELSE RenderLoop(ok, i + 1, rendered, base)

\* PDFTextExtractor._render_with_pdf2image(file_bytes)
RenderWithPdf2image(r) ==
    IF ~r.available THEN <<>>
    ELSE IF r.raises THEN <<>>
    ELSE RenderLoop(r.ok, 1, <<>>, 0)

\* The offset that tells the images of PyMuPDF from those of pdf2image.
PymupdfBase == 10

\* PDFTextExtractor._render_with_pymupdf(file_bytes)
RenderWithPymupdf(r) ==
    IF ~r.available THEN <<>>
    ELSE IF r.raises THEN <<>>
    ELSE RenderLoop(r.ok, 1, <<>>, PymupdfBase)

\* PDFTextExtractor._guess_image_content_type(data, image_format)
GuessImageContentType(data, image_format) ==
    LET fmt == LowerStr(image_format) IN
    IF fmt \in {"jpeg", "jpg", "jpe"} THEN "image/jpeg"
    ELSE IF fmt = "png" THEN "image/png"
    ELSE IF fmt \in {"tif", "tiff"} THEN "image/tiff"
    ELSE IF fmt = "bmp" THEN "image/bmp"
    ELSE IF fmt = "gif" THEN "image/gif"
    ELSE IF BytesStartWith(data, <<137, 80, 78, 71, 13, 10, 26, 10>>) THEN "image/png"
    ELSE IF BytesStartWith(data, <<255, 216, 255>>) THEN "image/jpeg"
    ELSE IF BytesStartWith(data, <<73, 73, 42, 0>>)
            \/ BytesStartWith(data, <<77, 77, 0, 42>>)
    THEN "image/tiff"
    ELSE "image/png"

\* The inner loop of _extract_embedded_images over the images of one page:
\* chosen is <<>> for None, else <<image>>.
RECURSIVE ChooseLargest(_, _, _, _)
ChooseLargest(images, i, chosen, max_area) ==
    IF i > Len(images) THEN chosen
    ELSE LET image == images[i]
             area == image.width * image.height
         IN IF image.data = <<>> THEN ChooseLargest(images, i + 1, chosen, max_area)
            ELSE IF area <= max_area THEN ChooseLargest(images, i + 1, chosen, max_area)
            ELSE ChooseLargest(images, i + 1,
                               << <<image.data,
                                    GuessImageContentType(image.data, image.image_format)>> >>,
                               area)

\* The outer loop of _extract_embedded_images over the pages.
RECURSIVE EmbeddedLoop(_, _, _)
EmbeddedLoop(pages, i, rendered) ==
    IF i > Len(pages) THEN rendered
    ELSE EmbeddedLoop(pages, i + 1, rendered \o ChooseLargest(pages[i], 1, <<>>, -1))

\* What render_page_images answers: the images, or the exception it raises.
Rendered(images) == [raised |-> FALSE, images |-> images]
RenderRaised == [raised |-> TRUE, images |-> <<>>]

\* PDFTextExtractor._extract_embedded_images(file_bytes); PdfReader(...) is
\* called outside any try and raises on bytes it cannot read.
ExtractEmbeddedImages(e) ==
    IF e.readerRaises THEN RenderRaised
    ELSE Rendered(EmbeddedLoop(e.pages, 1, <<>>))

\* PDFTextExtractor.render_page_images(file_bytes)
RenderPageImages(pdf2image, pymupdf, embedded) ==
    LET first == RenderWithPdf2image(pdf2image)
        second == RenderWithPymupdf(pymupdf)
    IN IF first # <<>> THEN Rendered(first)
       ELSE IF second # <<>> THEN Rendered(second)
       ELSE ExtractEmbeddedImages(embedded)

\* Embedded raster images of a page: a small JPEG without a declared format,
\* a larger one declared as JPEG, and an image object without data.
SmallImage == [data |-> <<255, 216, 255, 1>>, width |-> 1, height |-> 1, image_format |-> ""]
BigImage == [data |-> <<66, 2>>, width |-> 2, height |-> 2, image_format |-> "JPEG"]
NoDataImage == [data |-> <<>>, width |-> 3, height |-> 3, image_format |-> "png"]

\* The images a page can hold.
PageImageLists ==
    { <<>>, <<SmallImage>>, <<SmallImage, BigImage>>, <<BigImage, SmallImage>>,
      <<NoDataImage>> }

\* What PdfReader finds in the bytes: it raises, or the images of each page.
EmbeddedOutcomes ==
    { [readerRaises |-> TRUE, pages |-> <<>>] }
    \cup UNION { { [readerRaises |-> FALSE, pages |-> pages] :
                     pages \in [1..n -> PageImageLists] } : n \in 0..MaxPages }

\* An extractor with no call in progress.
InitRender ==
    /\ config = [AZURE_ENDPOINT |-> NONE, AZURE_KEY |-> NONE, OPENAI_API_KEY |-> NONE]
    /\ default_ocr_key = <<>>
    /\ ocr_cache = EmptyMap
    /\ built = <<>>
    /\ llm_cache = EmptyMap
    /\ pipeline = NONE
    /\ prediction_service = NoService
    /\ model_files = EmptyMap
    /\ threads = NoThreads
    /\ last = NoCall

\* A call of render_page_images.
CallRenderPageImages ==
    /\ last = NoCall
    /\ \E pdf2image \in RendererOutcomes, pymupdf \in RendererOutcomes,
          embedded \in EmbeddedOutcomes :
        last' = [op |-> "render_page_images", pdf2image |-> pdf2image,
                 pymupdf |-> pymupdf, embedded |-> embedded,
                 out |-> RenderPageImages(pdf2image, pymupdf, embedded)]
    /\ UNCHANGED <<config, ocr_cache, default_ocr_key, llm_cache, built, pipeline,
                 prediction_service, model_files, threads>>

NextRender == CallRenderPageImages \/ Return

SpecRender == InitRender /\ [][NextRender]_vars

\* The call just completed is one of render_page_images.
IsRenderCall == last.op = "render_page_images"

\* The data of the embedded images with data on page i of the document.
EmbeddedDataOn(i) ==
    { last.embedded.pages[i][j].data : j \in 1..Len(last.embedded.pages[i]) } \ { <<>> }

\* The pages of the document that hold an embedded image with data.
PagesWithImages ==
    { i \in 1..Len(last.embedded.pages) : EmbeddedDataOn(i) # {} }

\* C12: render_page_images returns the output of the first stage, in the
\* order pdf2image, PyMuPDF, embedded images, that yields a non-empty
\* sequence; a stage that raises or yields nothing is skipped, so the call
\* never raises: with both renderers failing it returns one embedded image
\* for each page that holds one, and the empty sequence when every stage
\* yields nothing.
C12_RenderStagesNeverRaise ==
    IsRenderCall
        => /\ ~last.out.raised
           /\ RenderWithPdf2image(last.pdf2image) # <<>>
                => last.out.images = RenderWithPdf2image(last.pdf2image)
           /\ (RenderWithPdf2image(last.pdf2image) = <<>>
               /\ RenderWithPymupdf(last.pymupdf) # <<>>)
                => last.out.images = RenderWithPymupdf(last.pymupdf)
           /\ (RenderWithPdf2image(last.pdf2image) = <<>>
               /\ RenderWithPymupdf(last.pymupdf) = <<>>)
                => /\ Len(last.out.images) = Cardinality(PagesWithImages)
                   /\ \A k \in 1..Len(last.out.images) :
                        \E i \in PagesWithImages : last.out.images[k][1] \in EmbeddedDataOn(i)

\* ---------------------------------------------------------- llm_service.py
\* The texts a model answers with: JSON objects, JSON values that are not
\* objects, texts that are not JSON, blank texts, and no content (None).
ResponseContents ==
    { "{}", "{\"TOTAL\": 1}", "[]", "3", "null", "no json", "", "  ", NONE }

\* json.loads(raw) on the texts of ResponseContents: the kind of the value
\* parsed, or the exception raised (TypeError when raw is None).
JsonLoads(raw) ==
    CASE raw = NONE -> [exc |-> "TypeError", json |-> ""]
      [] raw \in {"{}", "{\"TOTAL\": 1}"} -> [exc |-> "", json |-> "object"]
      [] raw = "[]" -> [exc |-> "", json |-> "array"]
      [] raw = "3" -> [exc |-> "", json |-> "number"]
      [] raw = "null" -> [exc |-> "", json |-> "null"]
      [] OTHER -> [exc |-> "JSONDecodeError", json |-> ""]

\* What extract gives its caller: a value, or the exception it raises; with
\* the requests sent to the completion API on the way.
LlmValue(json, raw, requests) ==
    [kind |-> "value", err |-> "", json |-> json, raw |-> raw, requests |-> requests]
LlmRaised(err, requests) ==
    [kind |-> "error", err |-> err, json |-> "", raw |-> "", requests |-> requests]

\* _parse_model_response(raw): only json.JSONDecodeError is turned into the
\* RuntimeError of an invalid model output; the parsed value is returned as
\* it is.
ParseModelResponse(raw, requests) ==
    LET parsed == JsonLoads(raw) IN
    IF parsed.exc = "JSONDecodeError" THEN LlmRaised("InvalidModelOutput", requests)
    ELSE IF parsed.exc # "" THEN LlmRaised(parsed.exc, requests)
    ELSE LlmValue(parsed.json, raw, requests)

\* config.OPENAI_MODEL (its default)
OpenaiModel == "gpt-5-mini"

\* The keyword arguments of chat.completions.create in OpenAILLMService.extract,
\* with the credential of the client that sends them.
OpenaiRequest(api_key) ==
    [model |-> OpenaiModel, temperature |-> "1", reasoning_effort |-> "minimal",
     api_key |-> api_key]

\* OpenAILLMService(config).extract(text, **kwargs): the constructor needs
\* the configured key; extract(self, text) takes no keyword argument, so a
\* call that passes one is rejected by Python before the body runs.
OpenaiExtract(cfg, kwargs, content) ==
    IF ~OpenaiConfigured(cfg) THEN LlmRaised("MissingCredential", <<>>)
    ELSE IF DOMAIN kwargs # {} THEN LlmRaised("TypeError", <<>>)
    ELSE ParseModelResponse(content, << OpenaiRequest(cfg.OPENAI_API_KEY) >>)

\* Keyword arguments given to extract: none; the ones of the repository's
\* test; the effort disabled as the route passes it (None); an effort; a key.
ExtractKwargs ==
    { EmptyMap,
      [reasoning_effort |-> "none", api_key |-> "test-key"],
      [reasoning_effort |-> NONE, api_key |-> NONE],
      [reasoning_effort |-> "high", api_key |-> NONE],
      [reasoning_effort |-> NONE, api_key |-> "test-key"] }

\* Configurations of the LLM clients: no OpenAI key, or one.
LlmConfigs ==
    { [AZURE_ENDPOINT |-> NONE, AZURE_KEY |-> NONE, OPENAI_API_KEY |-> o] :
        o \in {NONE, "sk"} }

\* The process before any LLM client is used.
InitLlm ==
    /\ config \in LlmConfigs
    /\ default_ocr_key = <<>>
    /\ ocr_cache = EmptyMap
    /\ built = <<>>
    /\ llm_cache = EmptyMap
    /\ pipeline = NONE
    /\ prediction_service = NoService
    /\ model_files = EmptyMap
    /\ threads = NoThreads
    /\ last = NoCall

\* OpenAILLMService(config).extract(text, **kwargs)
CallOpenaiExtract ==
    /\ last = NoCall
    /\ \E kwargs \in ExtractKwargs, content \in ResponseContents :
        last' = [op |-> "openai_extract", kwargs |-> kwargs, content |-> content,
                 out |-> OpenaiExtract(config, kwargs, content)]
    /\ UNCHANGED <<config, ocr_cache, default_ocr_key, llm_cache, built, pipeline,
                 prediction_service, model_files, threads>>

\* -------------------------------------- LocalLLMService._ensure_pipeline
\* The progress of the tokenizer resolution: the attempt that gave the
\* tokenizer (NONE while there is none), the attempts made in order, and
\* tokenizer_errors.
NoTokenizer == [tokenizer |-> NONE, attempts |-> <<>>, errors |-> <<>>]

\* A try/except that swallows the failure of a loader without appending it
\* to tokenizer_errors.
TrySilently(st, label, tok) ==
    IF st.tokenizer # NONE THEN st
    ELSE IF tok.succeeds = label
    THEN [st EXCEPT !.tokenizer = label, !.attempts = Append(@, label)]
    ELSE [st EXCEPT !.attempts = Append(@, label)]

\* One try/except around a loader: nothing while a tokenizer is there, else
\* the attempt is made and its failure appended to tokenizer_errors.
Try(st, label, tok) ==
    IF st.tokenizer # NONE THEN st
    ELSE IF tok.succeeds = label
    THEN [st EXCEPT !.tokenizer = label, !.attempts = Append(@, label)]
    ELSE [st EXCEPT !.attempts = Append(@, label), !.errors = Append(@, label)]

\* A loop of attempts that breaks at the first success.
RECURSIVE TryAll(_, _, _)
TryAll(st, labels, tok) ==
    IF labels = <<>> THEN st
    ELSE TryAll(Try(st, Head(labels), tok), Tail(labels), tok)

\* tokenizer_attempts (lines 309-325): fast, slow, and one per tokenizer
\* file found under the model directory.
TokenizerAttempts(tok) ==
    <<"auto_fast", "auto_slow">>
    \o (IF tok.tokenizerJsonExists THEN <<"auto_tokenizer.json">> ELSE <<>>)
    \o (IF tok.tokenizerModelExists THEN <<"auto_tokenizer.model">> ELSE <<>>)

\* Lines 339-361: the class named by config.auto_map["AutoTokenizer"].
DynamicAutoAttempts(tok) ==
    IF tok.configLoad = "ok" /\ tok.autoMap THEN <<"dynamic_auto">> ELSE <<>>

\* "." in tokenizer_class, on the class names of the model.
HasDot(name) == name = "mod.XTokenizer"

\* Lines 369-387: AutoTokenizer again with the tokenizer_file of the
\* tokenizer configuration, when that file exists.
ConfigFileAttempts(tok) ==
    IF tok.tokenizer_config.tokenizer_file # NONE /\ tok.hintExists
    THEN <<"config_file">> ELSE <<>>

\* Lines 389-415: dynamic_candidates from tokenizer_class.
DynamicCandidates(tok) ==
    LET tokenizer_class == tok.tokenizer_config.tokenizer_class IN
    IF tokenizer_class = NONE THEN <<>>
    ELSE IF HasDot(tokenizer_class) THEN <<"dynamic_dotted">>
    ELSE (IF tok.tokenizer_config.tokenizer_module # NONE
          THEN <<"dynamic_module">> ELSE <<>>)
         \o (IF tok.configLoad = "ok" /\ tok.modelType
             THEN <<"dynamic_model_type">> ELSE <<>>)
         \o <<"dynamic_snake">>

\* Lines 436-457: the direct import of the tokenizer class.
DirectImportAttempts(tok) ==
    IF tok.tokenizer_config.tokenizer_class # NONE THEN <<"direct_import">> ELSE <<>>

\* Lines 459-486: PreTrainedTokenizerFast on the raw tokenizer files that
\* exist (the files of the model all end in .json).
ManualAttempts(tok) ==
    (IF tok.tokenizer_config.loaded /\ tok.tokenizer_config.tokenizer_file # NONE
        /\ tok.hintExists
     THEN <<"manual_hint">> ELSE <<>>)
    \o (IF tok.tokenizerJsonExists THEN <<"manual_tokenizer.json">> ELSE <<>>)

\* tokenizer_config_errors of _load_tokenizer_config (lines 205-237), read
\* only while there is no tokenizer.
TokenizerConfigErrors(st, tok) ==
    IF st.tokenizer = NONE /\ ~tok.tokenizer_config.loaded
    THEN <<"tokenizer_config.json">> ELSE <<>>

\* Lines 305-486: the tokenizer resolution, stage after stage.
ResolveTokenizer(tok) ==
    LET auto == TryAll(NoTokenizer, TokenizerAttempts(tok), tok)
        dynamic == TryAll(auto, DynamicAutoAttempts(tok), tok)
        config_errors == TokenizerConfigErrors(dynamic, tok)
        from_config ==
            IF tok.tokenizer_config.loaded
            THEN TryAll(TryAll(TryAll(dynamic, ConfigFileAttempts(tok), tok),
                               DynamicCandidates(tok), tok),
                        DirectImportAttempts(tok), tok)
            ELSE dynamic
        manual == TryAll(from_config, ManualAttempts(tok), tok)
    IN [tokenizer |-> manual.tokenizer, attempts |-> manual.attempts,
        errors |-> manual.errors \o config_errors]

\* What _ensure_pipeline did: the pipeline it leaves in self._pipeline and the
\* exception it raised, if any.
PipelineOutcome(err, resolved, model_loaded, pipe) ==
    [err |-> err, tokenizer |-> resolved.tokenizer, attempts |-> resolved.attempts,
     errors |-> resolved.errors, model_loaded |-> model_loaded, pipeline |-> pipe]

\* The pipeline object built from a tokenizer.
LoadedPipeline == "<pipeline>"

\* LocalLLMService._ensure_pipeline(): AutoConfig.from_pretrained may raise
\* (only KeyError is caught); without a tokenizer the call raises the
\* RuntimeError of line 491; the model is loaded after the tokenizer.
EnsurePipeline(pipe, tok) ==
    IF pipe # NONE THEN PipelineOutcome("", NoTokenizer, FALSE, pipe)
    ELSE IF tok.configLoad = "raises"
    THEN PipelineOutcome("ConfigLoadError", NoTokenizer, FALSE, NONE)
    ELSE LET resolved == ResolveTokenizer(tok) IN
         IF resolved.tokenizer = NONE
         THEN PipelineOutcome("TokenizerLoadFailed", resolved, FALSE, NONE)
         ELSE IF ~tok.modelLoads
         THEN PipelineOutcome("ModelLoadError", resolved, FALSE, NONE)
         ELSE PipelineOutcome("", resolved, TRUE, LoadedPipeline)

\* What the text-generation pipeline returns: no output, a chat transcript
\* whose last message has the content,  or a plain generated text.
Generations ==
    { [shape |-> "empty", content |-> NONE] }
    \cup { [shape |-> "chat", content |-> c] : c \in ResponseContents }
    \cup { [shape |-> "text", content |-> c] : c \in {NONE, "{}", "3"} }

\* str(x) on the contents of the model.
Str(x) == IF x = NONE THEN "None" ELSE x

\* LocalLLMService._extract_content(outputs); the answer is a text, or the
\* RuntimeError of an empty output.
ExtractContent(gen) ==
    IF gen.shape = "empty" THEN [ok |-> FALSE, text |-> ""]
    ELSE IF gen.shape = "chat" THEN [ok |-> TRUE, text |-> Str(gen.content)]
    ELSE [ok |-> TRUE, text |-> IF gen.content = NONE THEN "" ELSE gen.content]

\* LocalLLMService.extract(text) after the pipeline is there.
LocalExtractWithPipeline(gen) ==
    LET content == ExtractContent(gen) IN
    IF ~content.ok THEN LlmRaised("InvalidModelOutput", <<>>)
    ELSE IF StripStr(content.text) = "" THEN LlmRaised("InvalidModelOutput", <<>>)
    ELSE ParseModelResponse(content.text, <<>>)

\* The tokenizer configurations: none found, an empty one, one naming a
\* tokenizer file, one naming a class, one naming a class and its module,
\* one naming a dotted class.
TokenizerConfigs ==
    { [loaded |-> FALSE, tokenizer_file |-> NONE, tokenizer_class |-> NONE,
       tokenizer_module |-> NONE],
      [loaded |-> TRUE, tokenizer_file |-> "tok.json", tokenizer_class |-> NONE,
       tokenizer_module |-> NONE],
      [loaded |-> TRUE, tokenizer_file |-> NONE, tokenizer_class |-> "XTokenizer",
       tokenizer_module |-> NONE],
      [loaded |-> TRUE, tokenizer_file |-> "tok.json", tokenizer_class |-> "XTokenizer",
       tokenizer_module |-> "tokmod"],
      [loaded |-> TRUE, tokenizer_file |-> NONE, tokenizer_class |-> "mod.XTokenizer",
       tokenizer_module |-> NONE] }

\* The loaders of the chain; at most one of them is able to load the
\* tokenizer of the model at hand (NONE: none is).
LoaderLabels ==
    { NONE, "auto_fast", "auto_slow", "auto_tokenizer.json", "auto_tokenizer.model",
      "dynamic_auto", "config_file", "dynamic_dotted", "dynamic_module",
      "dynamic_model_type", "dynamic_snake", "direct_import", "manual_hint",
      "manual_tokenizer.json" }

\* The model directory and the libraries during one _ensure_pipeline.
TokEnvs ==
    { [configLoad |-> c, autoMap |-> am, modelType |-> am, tokenizer_config |-> tc,
       tokenizerJsonExists |-> fj, tokenizerModelExists |-> fm, hintExists |-> fj,
       succeeds |-> l, modelLoads |-> ml] :
        c \in {"ok", "keyerror", "raises"}, am \in BOOLEAN, tc \in TokenizerConfigs,
        fj \in BOOLEAN, fm \in BOOLEAN, l \in LoaderLabels, ml \in BOOLEAN }

\* LocalLLMService.extract(text)
LocalExtract(pipe, tok, gen) ==
    LET ensured == EnsurePipeline(pipe, tok) IN
    [ensured |-> ensured,
     result |-> IF ensured.err # "" THEN LlmRaised(ensured.err, <<>>)
                ELSE LocalExtractWithPipeline(gen)]

\* A call of LocalLLMService.extract.
CallLocalExtract ==
    /\ last = NoCall
    /\ \E tok \in TokEnvs, gen \in Generations :
        LET r == LocalExtract(pipeline, tok, gen) IN
        /\ pipeline' = r.ensured.pipeline
        /\ last' = [op |-> "local_extract", tok |-> tok, gen |-> gen,
                    before |-> pipeline, ensured |-> r.ensured, out |-> r.result]
    /\ UNCHANGED <<config, ocr_cache, default_ocr_key, llm_cache, built,
                 prediction_service, model_files, threads>>

NextLlm == CallOpenaiExtract \/ CallLocalExtract \/ Return

SpecLlm == InitLlm /\ [][NextLlm]_vars

\* The call just completed is one of the hosted / the local client.
IsOpenaiCall == last.op = "openai_extract"
IsLocalCall == last.op = "local_extract"

\* The caller of extract gave the keyword argument name.
GivesKwarg(name) == name \in DOMAIN last.kwargs

\* The caller disabled the reasoning effort: "none", or the None the route
\* makes of it.
EffortDisabled ==
    GivesKwarg("reasoning_effort") /\ last.kwargs["reasoning_effort"] \in {"none", NONE}

\* The credential the call supplies itself (NONE when it supplies none).
CallCredential ==
    IF GivesKwarg("api_key") THEN last.kwargs["api_key"] ELSE NONE

\* C13: when the caller disables the reasoning effort and a credential is
\* there, the hosted client sends its chat-completion request and the
\* request has no reasoning_effort parameter at all.
C13_DisabledEffortOmitted ==
    (IsOpenaiCall /\ EffortDisabled
     /\ (CallCredential # NONE \/ config.OPENAI_API_KEY # NONE))
        => /\ Len(last.out.requests) = 1
           /\ "reasoning_effort" \notin DOMAIN last.out.requests[1]

\* C14: the hosted client sends its request with the credential of the call
\* when one is supplied, otherwise with the configured one, and fails with
\* MissingCredential only when neither is present.
C14_CredentialOverride ==
    IsOpenaiCall
        => /\ CallCredential # NONE
                => /\ Len(last.out.requests) = 1
                   /\ last.out.requests[1].api_key = CallCredential
           /\ (CallCredential = NONE /\ config.OPENAI_API_KEY # NONE
               /\ Len(last.out.requests) = 1)
                => last.out.requests[1].api_key = config.OPENAI_API_KEY
           /\ (last.out.kind = "error" /\ last.out.err = "MissingCredential")
                <=> (CallCredential = NONE /\ config.OPENAI_API_KEY = NONE)

\* The model answered the call (a completion came back, or the pipeline ran).
ModelAnswered ==
    \/ IsOpenaiCall /\ Len(last.out.requests) = 1
    \/ IsLocalCall /\ last.ensured.err = ""

\* C15: for both LLM clients, once the model has answered, extract returns a
\* value only if it is a JSON object parsed from the answer, and otherwise
\* fails with InvalidModelOutput.
C15_OnlyJsonObjects ==
    ModelAnswered
        => /\ last.out.kind = "value" => last.out.json = "object"
           /\ last.out.kind = "error" => last.out.err = "InvalidModelOutput"

\* The stage of the tokenizer chain a loader belongs to: 1 the automatic
\* resolution, 2 the classes and files named by the model / tokenizer
\* configuration, 3 the manual construction from a raw tokenizer file.
StageOf(label) ==
    IF label \in {"auto_fast", "auto_slow", "auto_tokenizer.json", "auto_tokenizer.model"}
    THEN 1
    ELSE IF label \in {"manual_hint", "manual_tokenizer.json"} THEN 3
    ELSE 2

\* The loaders whose failure the call reports.
ReportedFailures == { last.ensured.errors[i] : i \in 1..Len(last.ensured.errors) }

\* A call of the local client that had to resolve the tokenizer.
ResolvedTokenizer == IsLocalCall /\ last.before = NONE /\ last.tok.configLoad # "raises"

\* C16: the tokenizer resolution tries its stages in the fixed order
\* (automatic with fast then slow, classes of the configuration, manual
\* construction); the first loader that succeeds ends the chain; when every
\* loader fails the call fails with TokenizerLoadFailed carrying the failure
\* of every loader attempted, no model is loaded and no pipeline is cached.
C16_TokenizerChain ==
    ResolvedTokenizer
        => LET a == last.ensured.attempts IN
           /\ Len(a) >= 1 /\ a[1] = "auto_fast"
           /\ Len(a) >= 2 => a[2] = "auto_slow"
           /\ \A i, j \in 1..Len(a) : i < j => StageOf(a[i]) <= StageOf(a[j])
           /\ \A i \in 1..Len(a) : a[i] = last.tok.succeeds <=> i = Len(a) /\ last.ensured.tokenizer # NONE
           /\ last.ensured.tokenizer # NONE => last.ensured.tokenizer = a[Len(a)]
           /\ last.ensured.tokenizer = NONE
                => /\ last.out.kind = "error" /\ last.out.err = "TokenizerLoadFailed"
                   /\ \A i \in 1..Len(a) : a[i] \in ReportedFailures
                   /\ ~last.ensured.model_loaded
                   /\ pipeline = NONE

\* Witness of C16: every loader of the three stages was attempted and failed.
C16_Witness ==
    /\ ResolvedTokenizer /\ last.ensured.tokenizer = NONE
    /\ last.out.err = "TokenizerLoadFailed"
    /\ \E i, j, k \in 1..Len(last.ensured.attempts) :
          /\ StageOf(last.ensured.attempts[i]) = 1
          /\ StageOf(last.ensured.attempts[j]) = 2
          /\ StageOf(last.ensured.attempts[k]) = 3
    /\ Len(last.ensured.errors) > Len(last.ensured.attempts)

\* ------------------------------------------- routes/predictions.py: model
\* Most versions of the model file written in one behaviour.
MaxVersion == 3

\* The places a model file can be at: the configured path as written, and
\* what expanduser() makes of a path that starts with "~".
Locations == {"rf.pkl", "~/rf.pkl", "/home/user/rf.pkl"}

\* Path(p).expanduser() on the paths of the model.
Expanduser(p) == IF p = "~/rf.pkl" THEN "/home/user/rf.pkl" ELSE p

\* Configurations of the prediction routes: RF_MODEL_PATH relative to the
\* working directory, or under the home directory.
PredictConfigs ==
    { [AZURE_ENDPOINT |-> NONE, AZURE_KEY |-> NONE, OPENAI_API_KEY |-> NONE,
       RF_MODEL_PATH |-> p] : p \in {"rf.pkl", "~/rf.pkl"} }

\* PredictionService(model_path): FileNotFoundError without the file,
\* RuntimeError when joblib cannot load it, else the service with the model
\* of the file.
NewPredictionService(model_path, files, loadOk) ==
    IF files[model_path] = 0 THEN [ok |-> FALSE, err |-> "FileNotFoundError", service |-> NoService]
    ELSE IF ~loadOk THEN [ok |-> FALSE, err |-> "RuntimeError", service |-> NoService]
    ELSE [ok |-> TRUE, err |-> "",
          service |-> [model_path |-> model_path, model |-> files[model_path]]]

\* PredictionService.reload(): the model is read again from the service's
\* own _model_path.
Reload(service, files, loadOk) ==
    IF ~loadOk \/ files[service.model_path] = 0
    THEN [ok |-> FALSE, err |-> "RuntimeError", service |-> service]
    ELSE [ok |-> TRUE, err |-> "",
          service |-> [service EXCEPT !.model = files[service.model_path]]]

\* _get_prediction_service(request): the cached service, or a new one built
\* from config.RF_MODEL_PATH as it is written.
GetPredictionService(cached, files, loadOk) ==
    IF cached # NoService THEN [ok |-> TRUE, err |-> "", service |-> cached]
    ELSE NewPredictionService(config.RF_MODEL_PATH, files, loadOk)

\* Lines 205-216 of retrain_prediction_model: construct or reload the cached
\* service; any exception clears app.state.prediction_service.
RefreshAfterRetrain(cached, model_path, files, loadOk) ==
    LET r == IF cached = NoService THEN NewPredictionService(model_path, files, loadOk)
             ELSE Reload(cached, files, loadOk)
    IN IF r.ok THEN [servicio_recargado |-> TRUE, service |-> r.service]
       ELSE [servicio_recargado |-> FALSE, service |-> NoService]

\* The application at start: the model files present hold version 1.
InitPredict ==
    /\ config \in PredictConfigs
    /\ default_ocr_key = <<>>
    /\ ocr_cache = EmptyMap
    /\ built = <<>>
    /\ llm_cache = EmptyMap
    /\ pipeline = NONE
    /\ prediction_service = NoService
    /\ model_files \in [Locations -> {0, 1}]
    /\ threads = NoThreads
    /\ last = NoCall

\* POST /predictions: create_prediction with its dependency
\* _get_prediction_service.
CallCreatePrediction ==
    /\ last = NoCall
    /\ \E loadOk \in BOOLEAN, predictOk \in BOOLEAN :
        LET got == GetPredictionService(prediction_service, model_files, loadOk) IN
        /\ prediction_service' = IF got.ok THEN got.service ELSE prediction_service
        /\ last' = [op |-> "create_prediction",
                    status |-> IF got.ok /\ predictOk THEN "200" ELSE "500",
                    model |-> IF got.ok /\ predictOk THEN got.service.model ELSE 0]
    /\ UNCHANGED <<config, ocr_cache, default_ocr_key, llm_cache, built, pipeline,
                   model_files, threads>>

\* POST /predictions/retrain: retrain_prediction_model.  A training that
\* fails answers with an HTTP error and changes nothing; one that succeeds
\* has written the next version of the model to the expanded path.
CallRetrain ==
    /\ last = NoCall
    /\ \E trained \in {"ok", "FileNotFoundError", "ValueError", "RuntimeError"},
          loadOk \in BOOLEAN :
        LET model_path == Expanduser(config.RF_MODEL_PATH)
            version == (IF model_files[model_path] = 0 THEN 1 ELSE model_files[model_path]) + 1
            written == [model_files EXCEPT ![model_path] = version]
            refreshed == RefreshAfterRetrain(prediction_service, model_path, written, loadOk)
        IN IF trained # "ok"
           THEN /\ last' = [op |-> "retrain",
                            status |-> IF trained = "ValueError" THEN "400" ELSE "500",
                            servicio_recargado |-> FALSE, version |-> 0]
                /\ UNCHANGED <<prediction_service, model_files>>
           ELSE /\ version <= MaxVersion
                /\ model_files' = written
                /\ prediction_service' = refreshed.service
                /\ last' = [op |-> "retrain", status |-> "200",
                            servicio_recargado |-> refreshed.servicio_recargado,
                            version |-> version]
    /\ UNCHANGED <<config, ocr_cache, default_ocr_key, llm_cache, built, pipeline,
                   threads>>

NextPredict == CallCreatePrediction \/ CallRetrain \/ Return

SpecPredict == InitPredict /\ [][NextPredict]_vars

\* The version the last successful retrain persisted (versions above 1 are
\* written by the retrain endpoint only).
Retrained == model_files[Expanduser(config.RF_MODEL_PATH)] >= 2
PersistedModel == model_files[Expanduser(config.RF_MODEL_PATH)]

\* C17: once the retrain endpoint has completed successfully, the cached
\* prediction service holds the newly persisted model (servicio_recargado
\* true) or is cleared (servicio_recargado false), and no later prediction
\* is served by an older model.
C17_NoStaleModelAfterRetrain ==
    Retrained
        => /\ prediction_service # NoService => prediction_service.model = PersistedModel
           /\ (last.op = "create_prediction" /\ last.status = "200")
                => last.model = PersistedModel
           /\ (last.op = "retrain" /\ last.status = "200")
                => IF last.servicio_recargado
                   THEN prediction_service # NoService
                        /\ prediction_service.model = last.version
                   ELSE prediction_service = NoService

\* ------------------------------------- routes/extract.py: /extract/file
\* _validate_not_image(upload): the upload is refused when its name has an
\* image suffix or its declared type starts with "image/" (as declared, in
\* the case the client wrote it).
ValidateNotImage(filename, content_type) ==
    ~(SuffixOf(filename) \in IMAGE_EXTENSIONS
      \/ StartsWithImage(IF content_type = NONE THEN "" ELSE content_type))

\* `file.filename or "archivo"`
FilenameOrDefault(filename) ==
    IF filename = <<>> THEN <<"a", "r", "c", "h", "i", "v", "o">> ELSE filename

\* The keyword and query parameters extract_from_file_endpoint declares
\* besides `file` and `service`.
FileEndpointParameters ==
    {"force_ocr", "llm_provider", "llm_model", "temperature", "top_p",
     "reasoning_effort", "frequency_penalty", "presence_penalty", "openai_api_key",
     "ocr_provider", "azure_form_recognizer_endpoint", "azure_form_recognizer_key"}

\* How a request names use_vision: not at all, or with a value.
UseVisionRequests == {"absent", "true", "false"}

\* How the request reaches the handler: over HTTP, where FastAPI binds the
\* declared query parameters and drops the others, or as a Python call with
\* keyword arguments, where an undeclared keyword is a TypeError.
Deliveries == {"query", "keyword"}

\* OCR query parameters of a request: none, a full override, and a provider
\* the route refuses.
EndpointOcrArgs ==
    CallOcrArgs \cup {[provider |-> "tesseract", endpoint |-> NONE, key |-> NONE]}

\* The call of service.extract_from_file the handler made, if any.
NotForwarded ==
    [called |-> FALSE, filename |-> <<>>, data |-> <<>>, content_type |-> NONE,
     force_ocr |-> FALSE, use_vision |-> FALSE,
     ocr |-> [provider |-> NONE, endpoint |-> NONE, key |-> NONE]]

\* Lines 267-283: the arguments of service.extract_from_file.  use_vision is
\* not among them, so the service takes its default (False).
ForwardedFileCall(filename, doc, content_type, force_ocr, ocr) ==
    [called |-> TRUE, filename |-> FilenameOrDefault(filename), data |-> doc.bytes,
     content_type |-> content_type, force_ocr |-> force_ocr, use_vision |-> FALSE,
     ocr |-> [provider |-> NormalizeOcrProvider(ocr.provider),
              endpoint |-> NormalizeOptionalString(ocr.endpoint),
              key |-> NormalizeOptionalString(ocr.key)]]

\* What is kept of a request to POST /extract/file.
FileEndpointCall(filename, content_type, doc, force_ocr, use_vision, delivery, ocr, status, forwarded, out) ==
    [op |-> "extract_file_endpoint", filename |-> filename,
     content_type |-> content_type, doc |-> doc, force_ocr |-> force_ocr,
     use_vision |-> use_vision, delivery |-> delivery, ocr |-> ocr,
     status |-> status, forwarded |-> forwarded, out |-> out]

\* The outcome kept when the service was not called.
NoOutcome == Observe(Raised("", <<>>, 0, CurrentStore))

\* extract_from_file_endpoint(file, force_ocr=, ..., service=)
CallExtractFromFileEndpoint ==
    /\ last = NoCall
    /\ \E filename \in FileNames \cup {<<>>}, content_type \in ContentTypes,
          doc \in Docs, force_ocr \in BOOLEAN, use_vision \in UseVisionRequests,
          delivery \in Deliveries, ocr \in EndpointOcrArgs :
        LET refused(status) ==
                /\ last' = FileEndpointCall(filename, content_type, doc, force_ocr,
                                             use_vision, delivery, ocr, status,
                                             NotForwarded, NoOutcome)
                /\ UNCHANGED <<config, ocr_cache, default_ocr_key, llm_cache, built,
                               pipeline, prediction_service, model_files, threads>>
        IN IF delivery = "keyword" /\ use_vision # "absent"
                /\ "use_vision" \notin FileEndpointParameters
           THEN refused("TypeError")
           ELSE IF ~ValidateNotImage(filename, content_type) THEN refused("400")
           ELSE IF doc.bytes = <<>> THEN refused("400")
           ELSE IF NormalizeOcrProvider(ocr.provider) = HTTP400 THEN refused("400")
           ELSE \E env \in Envs(doc) :
                  LET fwd == ForwardedFileCall(filename, doc, content_type, force_ocr, ocr)
                      out == ExtractFromFile(CurrentStore, fwd.filename, doc,
                                             fwd.content_type, fwd.force_ocr,
                                             fwd.use_vision, NONE, fwd.ocr, env)
                  IN /\ Commit(out)
                     /\ last' = FileEndpointCall(filename, content_type, doc,
                                                  force_ocr, use_vision, delivery, ocr,
                                                  IF out.kind = "error" THEN "error"
                                                  ELSE "200",
                                                  fwd, Observe(out))

NextEndpoint == CallExtractFromFileEndpoint \/ Return

SpecEndpoint == Init /\ [][NextEndpoint]_vars

\* The last request was one to POST /extract/file.
IsFileEndpointCall == last.op = "extract_file_endpoint"

\* The request carries an upload the route takes: not an image, not empty,
\* with an OCR provider the route knows.
UploadAccepted ==
    /\ ValidateNotImage(last.filename, last.content_type)
    /\ last.doc.bytes # <<>>
    /\ NormalizeOcrProvider(last.ocr.provider) # HTTP400

\* C18: a request to /extract/file that names use_vision is accepted and
\* its use_vision value reaches extract_from_file unchanged, together with
\* the uploaded file name, the declared content type and all the bytes.
C18_FileEndpointForwardsUseVision ==
    (IsFileEndpointCall /\ last.use_vision # "absent" /\ UploadAccepted)
        => /\ last.forwarded.called
           /\ last.forwarded.use_vision = (last.use_vision = "true")
           /\ last.filename # <<>> => last.forwarded.filename = last.filename
           /\ last.forwarded.content_type = last.content_type
           /\ last.forwarded.data = last.doc.bytes

\* --------------------------------- routes/predictions.py: PredictionRequest
\* Longest text given as a numeric field.
MaxChars == 4

\* The characters of those texts: digits, both separators, a space, the
\* minus sign and a letter.
NumberAlphabet == {"0", "1", "5", ",", ".", " ", "-", "x"}

\* str.isdigit() on the characters of the model.
IsDigit(c) == c \in {"0", "1", "2", "3", "4", "5", "6", "7", "8", "9"}

\* The value of a digit.
DigitVal(c) ==
    CASE c = "0" -> 0 [] c = "1" -> 1 [] c = "2" -> 2 [] c = "3" -> 3 [] c = "4" -> 4
      [] c = "5" -> 5 [] c = "6" -> 6 [] c = "7" -> 7 [] c = "8" -> 8 [] c = "9" -> 9

\* The number a sequence of digits writes.
RECURSIVE DigitsValue(_)
DigitsValue(s) ==
    IF s = <<>> THEN 0
    ELSE 10 * DigitsValue(SubSeq(s, 1, Len(s) - 1)) + DigitVal(s[Len(s)])

RECURSIVE Pow10(_)
Pow10(n) == IF n = 0 THEN 1 ELSE 10 * Pow10(n - 1)

\* A float with a finite decimal expansion: (-1)^neg * mant / 10^scale.
Dec(neg, mant, scale) == [neg |-> neg, mant |-> mant, scale |-> scale]

\* number < 0
IsNegative(d) == d.neg /\ d.mant > 0

\* a == b on floats.
SameNumber(a, b) ==
    /\ a.mant * Pow10(b.scale) = b.mant * Pow10(a.scale)
    /\ a.mant > 0 => a.neg = b.neg

\* s.replace(c, "")
RemoveChar(s, c) == SelectSeq(s, LAMBDA x : x # c)

\* s.replace(",", ".")
CommasToDots(s) == [i \in 1..Len(s) |-> IF s[i] = "," THEN "." ELSE s[i]]

\* s.rfind(c): the last index of c, counted from 0, or -1.
Rfind(s, c) ==
    LET at == { i \in 1..Len(s) : s[i] = c } IN
    IF at = {} THEN -1 ELSE (CHOOSE i \in at : \A j \in at : j <= i) - 1

\* The outcome of a parse or of a validator.
NumberOk(d) == [ok |-> TRUE, err |-> "", number |-> d]
NumberErr(err) == [ok |-> FALSE, err |-> err, number |-> Dec(FALSE, 0, 0)]

\* float(candidate) on a text of digits, "-" and ".": an optional sign, then
\* digits with at most one point and at least one digit.
PyFloat(candidate) ==
    LET neg == candidate # <<>> /\ Head(candidate) = "-"
        body == IF neg THEN Tail(candidate) ELSE candidate
        points == { i \in 1..Len(body) : body[i] = "." }
        digits == RemoveChar(body, ".")
        point == IF points = {} THEN Len(body) + 1 ELSE CHOOSE i \in points : TRUE
    IN IF \/ digits = <<>>
          \/ \E i \in 1..Len(digits) : ~IsDigit(digits[i])
          \/ Cardinality(points) > 1
       THEN NumberErr("ValueError")
       ELSE NumberOk(Dec(neg, DigitsValue(digits), Len(body) - point + (IF points = {} THEN 1 ELSE 0)))

\* The branch of _parse_number that always takes the point as the decimal
\* separator.
NumberCandidateDotOnly(filtered) == RemoveChar(filtered, ",")

\* Lines 60-65 of _parse_number: the text handed to float().
NumberCandidate(filtered) ==
    IF Rfind(filtered, ",") > Rfind(filtered, ".")
    THEN CommasToDots(RemoveChar(filtered, "."))
    ELSE RemoveChar(filtered, ",")

\* A value given for a numeric field: a text, a number, or something else.
TextValue(t) == [kind |-> "str", text |-> t, num |-> Dec(FALSE, 0, 0)]
NumValue(d) == [kind |-> "num", text |-> <<>>, num |-> d]
OtherValue == [kind |-> "other", text |-> <<>>, num |-> Dec(FALSE, 0, 0)]

\* PredictionRequest._parse_number(value)
ParseNumber(value) ==
    IF value.kind = "num" THEN NumberOk(value.num)
    ELSE IF value.kind = "str"
    THEN LET cleaned == Strip(value.text)
             normalized == RemoveChar(cleaned, " ")
             filtered == SelectSeq(normalized,
                                   LAMBDA ch : IsDigit(ch) \/ ch \in {"-", ",", "."})
         IN IF cleaned = <<>> THEN NumberErr("ValueError")
            ELSE IF filtered = <<>> THEN NumberErr("ValueError")
            ELSE PyFloat(NumberCandidate(filtered))
    ELSE NumberErr("ValueError")

\* int(round(number)) of a number that is not negative: to the nearest
\* integer, a half to the even one.
RoundToInt(d) ==
    LET unit == Pow10(d.scale)
        q == d.mant \div unit
        r == d.mant % unit
    IN IF 2 * r > unit \/ (2 * r = unit /\ q % 2 = 1) THEN q + 1 ELSE q

\* The numeric fields of PredictionRequest.
IntFields == {"capacidad", "ruedas"}
NumericFields == IntFields \cup {"total"}

\* The validators _coerce_int (capacidad, ruedas) and _coerce_float (total).
Coerce(field, value) ==
    LET parsed == ParseNumber(value) IN
    IF ~parsed.ok THEN parsed
    ELSE IF IsNegative(parsed.number) THEN NumberErr("ValueError")
    ELSE IF field \in IntFields THEN NumberOk(Dec(FALSE, RoundToInt(parsed.number), 0))
    ELSE NumberOk(parsed.number)

\* The texts of the tests.
ExampleTexts ==
    { <<"1", "7", ".", "9", "0", "0", ",", "5", "0">>,
      <<"1", "7", " ", "9", "0", "0", ",", "7", "5">>,
      <<"1", "7", ",", "9", "0", "0", ".", "5", "0">>,
      <<"2", "5", "0", "0", "0">>, <<"d", "o", "s">> }

\* All values given to a numeric field.
NumberValues ==
    { TextValue(t) : t \in ExampleTexts \cup UNION { [1..n -> NumberAlphabet] : n \in 0..MaxChars } }
    \cup { NumValue(d) : d \in { Dec(TRUE, 1, 0), Dec(FALSE, 52, 1), Dec(FALSE, 449, 2),
                                 Dec(FALSE, 25000, 0), Dec(FALSE, 25, 1) } }
    \cup { OtherValue }

InitParse ==
    /\ config = [AZURE_ENDPOINT |-> NONE, AZURE_KEY |-> NONE, OPENAI_API_KEY |-> NONE]
    /\ default_ocr_key = <<>>
    /\ ocr_cache = EmptyMap
    /\ built = <<>>
    /\ llm_cache = EmptyMap
    /\ pipeline = NONE
    /\ prediction_service = NoService
    /\ model_files = EmptyMap
    /\ threads = NoThreads
    /\ last = NoCall

\* The validation of one numeric field of a PredictionRequest.
CallCoerce ==
    /\ last = NoCall
    /\ \E field \in NumericFields, value \in NumberValues :
        last' = [op |-> "coerce", field |-> field, value |-> value,
                 parsed |-> ParseNumber(value), out |-> Coerce(field, value)]
    /\ UNCHANGED <<config, ocr_cache, default_ocr_key, llm_cache, built, pipeline,
                   prediction_service, model_files, threads>>

NextParse == CallCoerce \/ Return

SpecParse == InitParse /\ [][NextParse]_vars

\* The last call validated a numeric field given as a text.
IsCoerceCall == last.op = "coerce"
IsTextCoerce == IsCoerceCall /\ last.value.kind = "str"

\* The text of the field without its spaces.
Unspaced == RemoveChar(last.value.text, " ")

\* The positions of the separators in it, and the last of them.
SeparatorsAt == { i \in 1..Len(Unspaced) : Unspaced[i] \in {",", "."} }
LastSeparatorAt == CHOOSE i \in SeparatorsAt : \A j \in SeparatorsAt : j <= i

\* A text the rule of the last separator reads without doubt: digits and
\* separators only, after an optional minus sign, with at least one digit,
\* and the symbol that occurs last occurring once.
ReadableNumber ==
    LET body == IF Unspaced # <<>> /\ Head(Unspaced) = "-" THEN Tail(Unspaced)
                ELSE Unspaced
    IN /\ \A i \in 1..Len(body) : IsDigit(body[i]) \/ body[i] \in {",", "."}
       /\ \E i \in 1..Len(body) : IsDigit(body[i])
       /\ SeparatorsAt # {}
            => Cardinality({ i \in SeparatorsAt : Unspaced[i] = Unspaced[LastSeparatorAt] }) = 1

\* The number the rule gives: the digits before the last separator are the
\* integer part, those after it the decimals; the other symbol is dropped.
DigitsIn(s) == SelectSeq(s, IsDigit)
ExpectedNumber ==
    LET cut == IF SeparatorsAt = {} THEN Len(Unspaced) + 1 ELSE LastSeparatorAt
        whole == DigitsIn(SubSeq(Unspaced, 1, cut - 1))
        decimals == DigitsIn(SubSeq(Unspaced, cut + 1, Len(Unspaced)))
    IN Dec(Unspaced # <<>> /\ Head(Unspaced) = "-",
           DigitsValue(whole \o decimals), Len(decimals))

\* The three texts the rule is stated with.
ExamplesParsed ==
    /\ last.value.text = <<"1", "7", ".", "9", "0", "0", ",", "5", "0">>
         => last.parsed.ok /\ SameNumber(last.parsed.number, Dec(FALSE, 1790050, 2))
    /\ last.value.text = <<"1", "7", " ", "9", "0", "0", ",", "7", "5">>
         => last.parsed.ok /\ SameNumber(last.parsed.number, Dec(FALSE, 1790075, 2))
    /\ last.value.text = <<"2", "5", "0", "0", "0">>
         => last.parsed.ok /\ SameNumber(last.parsed.number, Dec(FALSE, 25000, 0))

\* C19: a numeric text is parsed with its spaces removed, the symbol among
\* ',' and '.' that occurs last as the decimal separator and the other
\* symbol dropped; a field whose parsed value is negative is rejected.
C19_LastSeparatorIsDecimal ==
    IsCoerceCall
        => /\ IsTextCoerce => ExamplesParsed
           /\ (IsTextCoerce /\ ReadableNumber)
                => last.parsed.ok /\ SameNumber(last.parsed.number, ExpectedNumber)
           /\ (last.parsed.ok /\ IsNegative(last.parsed.number)) => ~last.out.ok

\* A text with a point for the thousands and a comma for the decimals was
\* accepted as total with the value the rule gives.
C19_Witness ==
    /\ IsTextCoerce
    /\ last.field = "total"
    /\ last.value.text = <<"1", "7", ".", "9", "0", "0", ",", "5", "0">>
    /\ last.out.ok
    /\ SameNumber(last.out.number, Dec(FALSE, 1790050, 2))

\* ------------------------------------------------ vision images of a PDF
\* The call reached lines 432-438: a file with a PDF suffix and vision on,
\* whose text is resolved.
VisionRenderReached ==
    /\ IsFileCall /\ last.use_vision
    /\ CallSuffix \in PDF_EXTENSIONS
    /\ Has("render_vision")

\* The rendering for vision raised, or gave no page image.
VisionRenderFailed == last.env.renderRaises \/ last.env.pages = <<>>

\* The text and the origin resolved before line 432: the embedded text, or
\* what the OCR service recognised on the uploaded bytes.
ResolvedOrigin == IF Has("resolve_ocr") THEN "ocr" ELSE "file"
ResolvedText ==
    IF ~Has("resolve_ocr") THEN last.doc.readText
    ELSE IF last.env.raw1 # <<>> THEN last.env.raw1
    ELSE last.env.raw2

\* C20: when the page images of a PDF cannot be rendered for vision (the
\* renderer raises or gives nothing), extract_from_file does not stop: it
\* goes on to the LLM with the text and text_origin already resolved and
\* with no vision image.
C20_VisionRenderFailureSwallowed ==
    (VisionRenderReached /\ VisionRenderFailed)
        => /\ last.out.err # "RenderError"
           /\ Has("get_llm")
           /\ Has("llm_extract")
                => last.out.llm_images = <<>> /\ last.out.llm_text = ResolvedText
           /\ ReturnedResult
                => last.out.text_origin = ResolvedOrigin /\ last.out.raw_text = ResolvedText

\* A PDF whose vision rendering raised, and one whose rendering gave no
\* page, each answered by the LLM without images.
C20_Witness ==
    /\ VisionRenderReached /\ last.env.renderRaises
    /\ ReturnedResult /\ last.out.llm_images = <<>>
    /\ last.out.text_origin = "file" /\ last.out.llm_text # <<>>

\* --------------------------------------------------- forced OCR of a PDF
\* The call is extract_from_file on a .pdf name with force_ocr on.
ForcedPdfCall == IsFileCall /\ last.force_ocr /\ CallSuffix \in PDF_EXTENSIONS

\* What _extract_text_from_pdf_with_ocr returns when it returns: the OCR
\* text of the uploaded bytes, else the joined texts of the pages, else the
\* text of the second attempt on the bytes.
OcrOutput ==
    IF last.env.raw1 # <<>> THEN last.env.raw1
    ELSE IF last.env.pages = <<>> THEN last.env.raw2
    ELSE JoinPageTexts(last.env.pageOcr)

\* C21: on a .pdf file with force_ocr on, extract_from_file never reads the
\* embedded text: the OCR path is entered once, the text given to the LLM is
\* the OCR output and text_origin is "ocr".
C21_ForcedOcrReplacesDirectText ==
    ForcedPdfCall
        => /\ ~Has("read_text")
           /\ Count("resolve_ocr") = 1
           /\ Has("llm_extract") => last.out.llm_text = OcrOutput /\ OcrInvoked
           /\ ReturnedResult
                => last.out.text_origin = "ocr" /\ last.out.raw_text = OcrOutput

\* A PDF with embedded text, OCR forced, answered from the OCR text.
C21_Witness ==
    /\ ForcedPdfCall /\ HasEmbeddedText
    /\ ReturnedResult
    /\ last.out.llm_text = RawText /\ last.out.llm_text # last.doc.readText
    /\ last.out.text_origin = "ocr"

\* ------------------------------------------- vision on a PDF with text
\* The page images a successful rendering attaches: the first pages, in
\* page order, up to the limit of _encode_vision_images.
ExpectedVisionImages ==
    LET n == IF Len(last.env.pages) < DefaultVisionLimit THEN Len(last.env.pages)
             ELSE DefaultVisionLimit
    IN [i \in 1..n |-> [media_type |-> "image/png", data |-> Base64(PageImage(i)[1])]]

\* C22: for a PDF with embedded text (OCR not forced), use_vision never
\* changes the text: the LLM gets the directly read text with text_origin
\* "file" whatever use_vision is; with use_vision on the pages are rendered
\* once and attached, at most 3 in page order; with use_vision off nothing
\* is rendered and no image is attached.
C22_VisionOnlyAddsImages ==
    (IsFileCall /\ IsPdfFile /\ ~last.force_ocr /\ HasEmbeddedText)
        => /\ Has("llm_extract") => last.out.llm_text = last.doc.readText
           /\ ReturnedResult => last.out.text_origin = "file"
           /\ (last.use_vision /\ Has("llm_extract"))
                => /\ Count("render_vision") = 1
                   /\ ~last.env.renderRaises => last.out.llm_images = ExpectedVisionImages
           /\ ~last.use_vision => ~RenderInvoked /\ last.out.llm_images = <<>>

\* ------------------------------------------------ OCR of rendered pages
\* The call ran the OCR service over the rendered pages of a PDF, and every
\* page call returned.
PageOcrDone ==
    /\ IsFileCall \/ IsImageCall
    /\ Has("ocr_page")
    /\ last.env.pageRaisesAt = 0

\* The pages whose OCR output is not empty, in page order.
PagesWithText == { i \in 1..Len(last.env.pageOcr) : last.env.pageOcr[i] # <<>> }

\* The per-page outputs that are not empty, stripped, in page order, with a
\* blank line between two of them.
RECURSIVE JoinFrom(_)
JoinFrom(i) ==
    IF i > Len(last.env.pageOcr) THEN <<>>
    ELSE IF i \notin PagesWithText THEN JoinFrom(i + 1)
    ELSE IF \E j \in PagesWithText : j > i
    THEN Strip(last.env.pageOcr[i]) \o <<"\n", "\n">> \o JoinFrom(i + 1)
    ELSE Strip(last.env.pageOcr[i])

\* The text the call obtained: returned as it is by extract_from_image on a
\* PDF, handed to the LLM otherwise.
ObtainedText == IF last.out.kind = "str" THEN last.out.raw_text ELSE last.out.llm_text
TextObtained == last.out.kind = "str" \/ Has("llm_extract")

\* C23: when the pages rendered from a PDF are OCR'd, the text is the
\* non-empty page outputs in page order, stripped and joined by a blank
\* line; the OCR succeeds when a page gave text and fails for lack of text
\* only when every page gave none.
C23_PageTextsJoinedInOrder ==
    PageOcrDone
        => /\ last.out.err = "OcrExtractionFailed" <=> PagesWithText = {}
           /\ PagesWithText # {} => last.out.kind = "str" \/ Has("get_llm")
           /\ TextObtained => ObtainedText = JoinFrom(1)

\* Two rendered pages, the first without text and the second with, and two
\* pages with text, both handed on.
C23_Witness ==
    /\ PageOcrDone /\ TextObtained
    /\ Len(last.env.pages) = 2
    /\ PagesWithText = {1, 2}
    /\ ObtainedText = PageText(1) \o <<"\n", "\n">> \o PageText(2)

\* ------------------------------------------- order of the OCR attempts
\* The call is on a file with a PDF suffix.
PdfSuffixCall == (IsFileCall \/ IsImageCall) /\ CallSuffix \in PDF_EXTENSIONS

\* The positions of event e among the collaborator calls of the last call.
EventsAt(e) == { i \in 1..Len(last.out.events) : last.out.events[i] = e }

\* C24: when a PDF is OCR'd, the OCR service is given the raw PDF bytes
\* only after render_page_images has returned no image, and no call on the
\* raw bytes comes before the OCR of rendered pages.
C24_RawPdfOcrIsLastResort ==
    PdfSuffixCall
        => /\ \A i \in EventsAt("ocr_raw") :
                /\ \E j \in EventsAt("render") : j < i
                /\ ~last.env.renderRaises /\ last.env.pages = <<>>
           /\ \A i \in EventsAt("ocr_raw"), j \in EventsAt("ocr_page") : j < i

\* ------------------------------------ ocr_service.py: AzureOCRService
\* What one begin_analyze_document call does: it gives a poller, or raises
\* a TypeError whose message names content_type (the client refuses the
\* argument), another TypeError, or an error of the service.
SubmissionOutcomes == {"poller", "TypeError:content_type", "TypeError", "HttpResponseError"}

\* "content_type" in str(exc)
MentionsContentType(outcome) == outcome = "TypeError:content_type"

\* The submissions made and the error that left them, if one did.
Submitted(ok, err, submissions) == [ok |-> ok, err |-> err, submissions |-> submissions]

\* A submission with its content_type argument (NONE: not given).
Submission(content_type) == [model_id |-> "prebuilt-read", content_type |-> content_type]

\* Lines 36-59 with a handler that retries after every TypeError.
SubmitRetryingAnyTypeError(content_type, first, retry) ==
    IF Truthy(content_type)
    THEN IF first = "poller" THEN Submitted(TRUE, "", <<Submission(content_type)>>)
         ELSE IF first \notin {"TypeError:content_type", "TypeError"}
         THEN Submitted(FALSE, first, <<Submission(content_type)>>)
         ELSE Submitted(retry = "poller", IF retry = "poller" THEN "" ELSE retry,
                        <<Submission(content_type), Submission(NONE)>>)
    ELSE Submitted(first = "poller", IF first = "poller" THEN "" ELSE first,
                   <<Submission(NONE)>>)

\* Lines 36-59 of extract_text: the calls of begin_analyze_document.
Submit(content_type, first, retry) ==
    IF Truthy(content_type)
    THEN IF first = "poller" THEN Submitted(TRUE, "", <<Submission(content_type)>>)
         ELSE IF first \notin {"TypeError:content_type", "TypeError"}
         THEN Submitted(FALSE, first, <<Submission(content_type)>>)
         ELSE IF ~MentionsContentType(first)
         THEN Submitted(FALSE, first, <<Submission(content_type)>>)
         ELSE Submitted(retry = "poller", IF retry = "poller" THEN "" ELSE retry,
                        <<Submission(content_type), Submission(NONE)>>)
    ELSE Submitted(first = "poller", IF first = "poller" THEN "" ELSE first,
                   <<Submission(NONE)>>)

\* "\n".join(lines)
RECURSIVE JoinLines(_)
JoinLines(lines) ==
    IF lines = <<>> THEN <<>>
    ELSE IF Len(lines) = 1 THEN lines[1]
    ELSE lines[1] \o <<"\n">> \o JoinLines(Tail(lines))

\* Lines 61-64: the contents of the lines of all pages, in order.
RECURSIVE LinesOf(_)
LinesOf(pages) == IF pages = <<>> THEN <<>> ELSE Head(pages) \o LinesOf(Tail(pages))

\* AzureOCRService.extract_text(data, content_type)
OcrExtractText(content_type, first, retry, result) ==
    LET sub == Submit(content_type, first, retry) IN
    IF ~sub.ok THEN [kind |-> "raised", err |-> sub.err, text |-> <<>>,
                     submissions |-> sub.submissions]
    ELSE IF result.raises
    THEN [kind |-> "raised", err |-> "HttpResponseError", text |-> <<>>,
          submissions |-> sub.submissions]
    ELSE [kind |-> "text", err |-> "", text |-> Strip(JoinLines(LinesOf(result.pages))),
          submissions |-> sub.submissions]

\* Content types a caller declares: none, the empty string, a PDF, an image.
DeclaredContentTypes == {NONE, "", "application/pdf", "image/png"}

\* What poller.result() gives: an error, or the pages with their lines.
AnalyzeResults ==
    { [raises |-> TRUE, pages |-> <<>>] }
    \cup { [raises |-> FALSE, pages |-> p] :
             p \in { <<>>, << <<>> >>, << << <<"a">> >> >>,
                     << << <<" ", "a">>, <<"b", " ">> >>, << <<"c">> >> >> } }

InitOcr ==
    /\ config = [AZURE_ENDPOINT |-> "e0", AZURE_KEY |-> "k0", OPENAI_API_KEY |-> NONE]
    /\ default_ocr_key = <<>>
    /\ ocr_cache = EmptyMap
    /\ built = <<>>
    /\ llm_cache = EmptyMap
    /\ pipeline = NONE
    /\ prediction_service = NoService
    /\ model_files = EmptyMap
    /\ threads = NoThreads
    /\ last = NoCall

\* A call of AzureOCRService.extract_text.
CallOcrExtractText ==
    /\ last = NoCall
    /\ \E content_type \in DeclaredContentTypes, first \in SubmissionOutcomes,
          retry \in SubmissionOutcomes, result \in AnalyzeResults :
        last' = [op |-> "ocr_extract_text", content_type |-> content_type,
                 first |-> first, retry |-> retry, result |-> result,
                 out |-> OcrExtractText(content_type, first, retry, result)]
    /\ UNCHANGED <<config, ocr_cache, default_ocr_key, llm_cache, built, pipeline,
                   prediction_service, model_files, threads>>

NextOcr == CallOcrExtractText \/ Return

SpecOcr == InitOcr /\ [][NextOcr]_vars

\* The last call was one of AzureOCRService.extract_text.
IsOcrExtractCall == last.op = "ocr_extract_text"

\* The caller declared a content type, and the first submission was refused
\* because of it.
ContentTypeDeclared == Truthy(last.content_type)
ContentTypeRejected == ContentTypeDeclared /\ last.first = "TypeError:content_type"

\* The number of begin_analyze_document calls of the last call.
Submissions == Len(last.out.submissions)

\* C25: extract_text submits the bytes with the declared content type; it
\* submits a second time, without content type, if and only if the first
\* submission was refused because of the content type; every other failure,
\* and a failure of the second submission, reaches the caller; no call
\* submits more than twice.
C25_RetryOnceWithoutContentType ==
    IsOcrExtractCall
        => /\ Submissions \in {1, 2}
           /\ ContentTypeDeclared
                => last.out.submissions[1].content_type = last.content_type
           /\ Submissions = 2 <=> ContentTypeRejected
           /\ Submissions = 2 => last.out.submissions[2].content_type = NONE
           /\ (last.first # "poller" /\ ~ContentTypeRejected)
                => last.out.kind = "raised" /\ last.out.err = last.first
           /\ (ContentTypeRejected /\ last.retry # "poller")
                => last.out.kind = "raised" /\ last.out.err = last.retry

\* A declared content type was refused, the second submission without it
\* was taken, and the text came back.
C25_Witness ==
    /\ IsOcrExtractCall /\ ContentTypeRejected
    /\ Submissions = 2
    /\ last.out.kind = "text" /\ last.out.text # <<>>

\* ------------------------------- concurrent resolutions on one service
\* A cache that forgets what is stored in it.
CacheUnchanged(cache, key, id) ==
    cache

\* self._llm_cache[key] = ... (line 87) / self._ocr_cache[cache_key] = service
\* (line 125)
StoreInCache(cache, key, id) ==
    (key :> id) @@ cache

\* The LLM providers and the OCR overrides the racing requests name.
RaceProviders == {NONE, "API"}
RaceOcrArgs == { [provider |-> "Azure", endpoint |-> " e1 ", key |-> "k1"],
                 [provider |-> NONE, endpoint |-> "e1", key |-> " k1 "] }

\* The cache key lines 100-119 compute for the arguments of a call: that
\* of the client a resolution on empty caches constructs.
OcrCacheKeyOf(ocr) ==
    LET r == ResolveOcrService([ocr |-> EmptyMap, llm |-> EmptyMap, built |-> <<>>],
                               ocr.provider, ocr.endpoint, ocr.key)
    IN IF r.ok THEN <<"azure", r.store.built[1].endpoint, r.store.built[1].key>>
       ELSE <<>>

\* The thread is between its look at the cache and its store in it.
Pending(th) == th.pc \in {"construct", "store"}

\* The key of the thread is cached and no thread is about to store it.
Settled(kind, llm_key, ocr_key) ==
    /\ IF kind = "llm" THEN llm_key \in DOMAIN llm_cache ELSE ocr_key \in DOMAIN ocr_cache
    /\ \A u \in Threads :
         Pending(threads[u])
           => ~(threads[u].kind = kind /\ threads[u].llm_key = llm_key
                /\ threads[u].ocr_key = ocr_key)

\* An orchestrator with an OpenAI key and no default OCR client, shared by
\* the request threads.
InitRace ==
    /\ config = [AZURE_ENDPOINT |-> NONE, AZURE_KEY |-> NONE, OPENAI_API_KEY |-> "sk"]
    /\ default_ocr_key = <<>>
    /\ ocr_cache = EmptyMap
    /\ built = <<>>
    /\ llm_cache = EmptyMap
    /\ pipeline = NONE
    /\ prediction_service = NoService
    /\ model_files = EmptyMap
    /\ threads = NoThreads
    /\ last = NoCall

\* Line 80 of _get_llm / lines 100-119 of _resolve_ocr_service: a thread
\* enters a resolution and computes its key.
RaceBegin(t) ==
    /\ threads[t].pc = "idle"
    /\ \/ \E provider \in RaceProviders :
            LET key == LowerStr(IF Truthy(provider) THEN provider ELSE DefaultProvider)
            IN /\ key \in LlmFactories
               /\ threads' = [threads EXCEPT ![t] =
                     [IdleThread EXCEPT !.pc = "check", !.kind = "llm",
                                        !.llm_key = key,
                                        !.settled = Settled("llm", key, <<>>)]]
       \/ \E ocr \in RaceOcrArgs :
            LET key == OcrCacheKeyOf(ocr)
            IN /\ key # <<>>
               /\ threads' = [threads EXCEPT ![t] =
                     [IdleThread EXCEPT !.pc = "check", !.kind = "ocr",
                                        !.ocr_key = key,
                                        !.settled = Settled("ocr", "", key)]]
    /\ UNCHANGED <<config, ocr_cache, default_ocr_key, llm_cache, built, pipeline,
                   prediction_service, model_files, last>>

\* Line 86 (`key not in self._llm_cache`) / lines 120-121
\* (`self._ocr_cache.get(cache_key)`, `service is None`).
RaceCheck(t) ==
    LET th == threads[t] IN
    /\ th.pc = "check"
    /\ threads' = [threads EXCEPT ![t] =
          IF th.kind = "llm"
          THEN [th EXCEPT !.pc = IF th.llm_key \in DOMAIN llm_cache THEN "return"
                                 ELSE "construct"]
          ELSE IF th.ocr_key \in DOMAIN ocr_cache
          THEN [th EXCEPT !.pc = "return", !.local = ocr_cache[th.ocr_key]]
          ELSE [th EXCEPT !.pc = "construct"]]
    /\ UNCHANGED <<config, ocr_cache, default_ocr_key, llm_cache, built, pipeline,
                   prediction_service, model_files, last>>

\* The right-hand side of line 87 (`self._llm_factories[key]()`) / lines
\* 122-124 (`AzureOCRService(...)`): the client object is constructed.
RaceConstruct(t) ==
    LET th == threads[t] IN
    /\ th.pc = "construct"
    /\ built' = Append(built, IF th.kind = "llm" THEN NewLlmClient(th.llm_key)
                              ELSE NewOcrClient(th.ocr_key[2], th.ocr_key[3]))
    /\ threads' = [threads EXCEPT ![t] = [th EXCEPT !.pc = "store",
                                                   !.local = Len(built) + 1]]
    /\ UNCHANGED <<config, ocr_cache, default_ocr_key, llm_cache, pipeline,
                   prediction_service, model_files, last>>

\* The assignment of line 87 / line 125: the client is put in the cache.
RaceStore(t) ==
    LET th == threads[t] IN
    /\ th.pc = "store"
    /\ IF th.kind = "llm"
       THEN /\ llm_cache' = StoreInCache(llm_cache, th.llm_key, th.local)
            /\ UNCHANGED ocr_cache
       ELSE /\ ocr_cache' = StoreInCache(ocr_cache, th.ocr_key, th.local)
            /\ UNCHANGED llm_cache
    /\ threads' = [threads EXCEPT ![t] = [th EXCEPT !.pc = "return"]]
    /\ UNCHANGED <<config, default_ocr_key, built, pipeline, prediction_service,
                   model_files, last>>

\* Line 88 (`return self._llm_cache[key]`, a KeyError without the key) /
\* line 126 (`return service`).
RaceReturn(t) ==
    LET th == threads[t] IN
    /\ th.pc = "return"
    /\ threads' = [threads EXCEPT ![t] =
          [th EXCEPT !.pc = "done",
                     !.got = IF th.kind = "ocr" THEN th.local
                             ELSE IF th.llm_key \in DOMAIN llm_cache
                             THEN llm_cache[th.llm_key] ELSE 0]]
    /\ UNCHANGED <<config, ocr_cache, default_ocr_key, llm_cache, built, pipeline,
                   prediction_service, model_files, last>>

\* The request of the thread ends; the thread serves another one.
RaceFinish(t) ==
    /\ threads[t].pc = "done"
    /\ threads' = [threads EXCEPT ![t] = IdleThread]
    /\ UNCHANGED <<config, ocr_cache, default_ocr_key, llm_cache, built, pipeline,
                   prediction_service, model_files, last>>

NextRace ==
    \E t \in Threads :
        \/ RaceBegin(t) \/ RaceCheck(t) \/ RaceConstruct(t)
        \/ RaceStore(t) \/ RaceReturn(t) \/ RaceFinish(t)

SpecRace == InitRace /\ [][NextRace]_vars

\* The client a thread asked for.
WantedClient(th) ==
    IF th.kind = "llm" THEN NewLlmClient(th.llm_key)
    ELSE NewOcrClient(th.ocr_key[2], th.ocr_key[3])

\* Every caller that has returned holds a constructed client of its key,
\* and one that started after the race on its key was over holds the cached
\* one.
CallersGetClients ==
    \A t \in Threads :
        threads[t].pc = "done"
          => /\ threads[t].got \in 1..Len(built)
             /\ built[threads[t].got] = WantedClient(threads[t])
             /\ threads[t].settled
                  => threads[t].got = IF threads[t].kind = "llm"
                                      THEN llm_cache[threads[t].llm_key]
                                      ELSE ocr_cache[threads[t].ocr_key]

\* Once no thread is about to store a key, the cached client of the key is
\* a constructed one and stays.
CachedClientStays ==
    /\ \A k \in DOMAIN llm_cache :
         Settled("llm", k, <<>>)
           => /\ built[llm_cache[k]] = NewLlmClient(k)
              /\ k \in DOMAIN llm_cache' /\ llm_cache'[k] = llm_cache[k]
    /\ \A k \in DOMAIN ocr_cache :
         Settled("ocr", "", k)
           => /\ built[ocr_cache[k]] = NewOcrClient(k[2], k[3])
              /\ k \in DOMAIN ocr_cache' /\ ocr_cache'[k] = ocr_cache[k]

\* The race costs constructions only: no key has more clients than threads.
OnlyDuplicates ==
    \A c \in { built[i] : i \in 1..Len(built) } :
        Cardinality({ i \in 1..Len(built) : built[i] = c }) <= MaxThreads

\* C26: whatever the interleaving of first resolutions of one cache key,
\* every caller gets a constructed client; when the racing calls are over
\* the cache holds one client for the key, which later resolutions return;
\* the race only constructs clients more than once.
C26_RaceOnlyDuplicatesConstruction ==
    [](CallersGetClients /\ OnlyDuplicates) /\ [][CachedClientStays]_vars

\* Two threads raced on one key: each returned its own client, and the
\* cache holds one of the two.
C26_Witness ==
    /\ threads[1].pc = "done" /\ threads[2].pc = "done"
    /\ threads[1].kind = "llm" /\ threads[2].kind = "llm"
    /\ threads[1].llm_key = threads[2].llm_key
    /\ threads[1].got # threads[2].got
    /\ llm_cache[threads[1].llm_key] \in {threads[1].got, threads[2].got}

\* --------------------------------------- when an OCR client is required
\* The text of the call is there to be read directly: the embedded text of
\* a PDF (OCR not forced), or the bytes of an .xml / .json file, whatever
\* they are.
TextReadDirectly ==
    /\ IsFileCall
    /\ \/ IsPdfFile /\ ~last.force_ocr /\ HasEmbeddedText
       \/ CallSuffix \in TEXT_EXTENSIONS \cup XML_EXTENSIONS

\* C27: a call of extract_from_file whose text is obtained by direct
\* reading never resolves an OCR client and never fails for lack of OCR
\* configuration.
C27_OcrRequiredOnlyWhenNeeded ==
    TextReadDirectly
        => ~Has("resolve_ocr") /\ last.out.err # "OcrNotConfigured"

\* ------------------------------- where a client's endpoint and key come from
\* The configured default pair, stripped as lines 115-116 strip it.
DefaultPair == <<OrEmptyStrip(config.AZURE_ENDPOINT), OrEmptyStrip(config.AZURE_KEY)>>

\* The pair the call supplied, when it supplied both an endpoint and a key.
SuppliedPair == <<OrEmptyStrip(last.endpoint), OrEmptyStrip(last.key)>>
BothSupplied == SuppliedPair[1] # "" /\ SuppliedPair[2] # ""

\* The (endpoint, key) pair of the client a resolution returned.
ReturnedPair == <<built[last.out.svc].endpoint, built[last.out.svc].key>>

\* C28: the client returned by _resolve_ocr_service has the configured
\* default (endpoint, key) pair, or a pair whose endpoint and key were both
\* supplied by the call; an endpoint of the call is never combined with the
\* configured key, nor a key of the call with the configured endpoint.
C28_NoMixedOcrCredentials ==
    (IsResolveCall /\ last.out.ok)
        => \/ ReturnedPair = DefaultPair
           \/ BothSupplied /\ ReturnedPair = SuppliedPair

\* ------------------------------------------ PDFTextExtractor.chunk_text
\* Bounds of the texts, of max_chars_per_chunk, and of the loop iterations
\* that are followed.
MaxText == 4
MaxChunkChars == 2
MaxIterations == 6

\* text.rfind(a + b, start, end): the highest index i, counted from 0, with
\* start <= i and i + 2 <= end at which the two characters stand, or -1.
RfindPair(text, a, b, start, end) ==
    LET at == { i \in start..(end - 2) : text[i + 1] = a /\ text[i + 2] = b } IN
    IF at = {} THEN -1 ELSE CHOOSE i \in at : \A j \in at : j <= i

\* Lines 157-162: where the chunk that begins at start is cut.
SplitAt(text, max_chars, start) ==
    LET end == IF start + max_chars < Len(text) THEN start + max_chars ELSE Len(text)
        paragraph == RfindPair(text, "\n", "\n", start, end)
        sentence == RfindPair(text, ".", " ", start, end)
    IN IF paragraph # -1 THEN paragraph
       ELSE IF sentence # -1 THEN sentence
       ELSE end

\* text[start:split_at].strip()
ChunkAt(text, start, split_at) == Strip(SubSeq(text, start + 1, split_at))

\* Texts given to chunk_text: letters, full stops, spaces and line breaks.
ChunkAlphabet == {"a", ".", " ", "\n"}
ChunkTexts == UNION { [1..n -> ChunkAlphabet] : n \in 0..MaxText }

\* Lines 152-155: the call of chunk_text, up to the head of its loop.
CallChunkText ==
    /\ last = NoCall
    /\ \E text \in ChunkTexts, max_chars \in 1..MaxChunkChars :
        last' = [op |-> "chunk_text", text |-> text, max_chars |-> max_chars,
                 pc |-> IF Len(text) <= max_chars THEN "done" ELSE "loop",
                 start |-> 0, iterations |-> 0,
                 chunks |-> IF Len(text) <= max_chars THEN <<text>> ELSE <<>>]
    /\ UNCHANGED <<config, ocr_cache, default_ocr_key, llm_cache, built, pipeline,
                   prediction_service, model_files, threads>>

\* Lines 156-166: one iteration of the loop.
ChunkIterate ==
    /\ last.op = "chunk_text" /\ last.pc = "loop"
    /\ last.start < Len(last.text)
    /\ last.iterations < MaxIterations
    /\ LET split_at == SplitAt(last.text, last.max_chars, last.start)
           chunk == ChunkAt(last.text, last.start, split_at)
       IN last' = [last EXCEPT
                     !.chunks = IF chunk # <<>> THEN Append(@, chunk) ELSE @,
                     !.start = split_at,
                     !.iterations = @ + 1]
    /\ UNCHANGED <<config, ocr_cache, default_ocr_key, llm_cache, built, pipeline,
                   prediction_service, model_files, threads>>

\* Lines 156, 167: the loop condition fails and the chunks are returned.
ChunkExit ==
    /\ last.op = "chunk_text" /\ last.pc = "loop"
    /\ last.start >= Len(last.text)
    /\ last' = [last EXCEPT !.pc = "done"]
    /\ UNCHANGED <<config, ocr_cache, default_ocr_key, llm_cache, built, pipeline,
                   prediction_service, model_files, threads>>

\* The caller takes the list.
ChunkReturn ==
    /\ last.op = "chunk_text" /\ last.pc = "done"
    /\ last' = NoCall
    /\ UNCHANGED <<config, ocr_cache, default_ocr_key, llm_cache, built, pipeline,
                   prediction_service, model_files, threads>>

NextChunk == CallChunkText \/ ChunkIterate \/ ChunkExit \/ ChunkReturn

SpecChunk == InitParse /\ [][NextChunk]_vars

\* The loop of chunk_text is never abandoned by the scheduler.
SpecChunkFair == SpecChunk /\ WF_vars(ChunkIterate) /\ WF_vars(ChunkExit)

\* A call of chunk_text is under way or has just returned its list.
IsChunkCall == last.op = "chunk_text"

\* No chunk is longer than the limit, and a text longer than the limit
\* gives no empty chunk.
ChunksWithinLimit ==
    IsChunkCall =>
        \A i \in 1..Len(last.chunks) :
            /\ Len(last.chunks[i]) <= last.max_chars
            /\ Len(last.text) > last.max_chars => last.chunks[i] # <<>>

\* A loop that advances at every iteration makes at most len(text) of them.
IterationsBounded == IsChunkCall => last.iterations <= Len(last.text)

\* An iteration of the loop leaves start further on than it found it.
IterationAdvances ==
    (IsChunkCall /\ last'.op = "chunk_text" /\ last'.iterations = last.iterations + 1)
        => last'.start > last.start

\* C29: chunk_text terminates for every text and every limit >= 1; every
\* chunk is non-empty (for a text longer than the limit) and none is longer
\* than the limit; each iteration of the loop strictly advances start.
C29_ChunkTextTerminates ==
    [](ChunksWithinLimit /\ IterationsBounded) /\ [][IterationAdvances]_vars

\* A call of chunk_text that entered its loop returns.
ChunkLoopLeft == (IsChunkCall /\ last.pc = "loop") ~> (IsChunkCall /\ last.pc = "done")

\* --------------------------------------------- _get_llm calls in sequence
\* Provider names given to _get_llm: none, empty, the two registered ones in
\* several spellings, and an unregistered one.
GetLlmProviders == {NONE, "", "api", "API", "local", "Local", "bogus", "azure"}

\* A call of _get_llm; the cache and the number of clients built so far are
\* kept with its outcome.
CallGetLlm ==
    /\ last = NoCall
    /\ \E provider \in GetLlmProviders :
        LET r == GetLlm(CurrentStore, provider)
        IN /\ Commit(r)
           /\ last' = [op |-> "get_llm", provider |-> provider,
                       cache_before |-> llm_cache, built_before |-> Len(built),
                       out |-> [ok |-> r.ok, err |-> r.err, llm |-> r.llm]]

NextGetLlm == CallGetLlm \/ Return

SpecGetLlm == Init /\ [][NextGetLlm]_vars

\* The last call was of _get_llm; the cache key of its provider.
IsGetLlmCall == last.op = "get_llm"
RequestedLlmKey ==
    IF last.provider \in {NONE, "", "api", "API"} THEN "api"
    ELSE IF last.provider \in {"local", "Local"} THEN "local"
    ELSE last.provider

\* The provider is not registered, or its client is not cached and cannot
\* be constructed for lack of the OpenAI credential.
LlmUnobtainable ==
    \/ RequestedLlmKey \notin {"api", "local"}
    \/ /\ RequestedLlmKey = "api"
       /\ "api" \notin DOMAIN last.cache_before
       /\ config.OPENAI_API_KEY \in {NONE, ""}

\* The LLM clients constructed so far, by their place in built.
LlmClientsBuilt == { i \in 1..Len(built) : built[i].kind = "llm" }

\* C30: across a sequence of _get_llm calls each provider's client is
\* constructed at most once and the same instance is returned afterwards; a
\* call naming an unknown provider, or whose construction fails, raises and
\* leaves the LLM cache as it was, so the cached providers stay usable and a
\* later call tries the construction again.
C30_LlmClientsConstructedOnce ==
    /\ \A i, j \in LlmClientsBuilt : built[i].endpoint = built[j].endpoint => i = j
    /\ \A k \in DOMAIN llm_cache :
          llm_cache[k] \in LlmClientsBuilt /\ built[llm_cache[k]].endpoint = k
    /\ IsGetLlmCall =>
        /\ last.out.ok <=> ~LlmUnobtainable
        /\ \A k \in DOMAIN last.cache_before :
              k \in DOMAIN llm_cache /\ llm_cache[k] = last.cache_before[k]
        /\ ~last.out.ok => llm_cache = last.cache_before
                           /\ Len(built) = last.built_before
        /\ last.out.ok =>
              /\ RequestedLlmKey \in DOMAIN llm_cache
              /\ last.out.llm = llm_cache[RequestedLlmKey]
              /\ Len(built) = last.built_before
                     + (IF RequestedLlmKey \in DOMAIN last.cache_before THEN 0 ELSE 1)

\* Both providers are cached and the call was served from the cache.
C30_Witness ==
    /\ IsGetLlmCall /\ last.out.ok
    /\ DOMAIN last.cache_before = {"api", "local"}
    /\ last.out.llm = last.cache_before[RequestedLlmKey]

\* Construction failed for lack of the credential while another provider
\* was cached, and the cache is as it was.
C30_FailedConstructionSeen ==
    /\ IsGetLlmCall /\ last.out.err = "MissingCredential"
    /\ DOMAIN last.cache_before = {"local"}

====
